---- MODULE Spec2Model ----
(***************************************************************************)
(* Model of the recommendation code of the event-review API:               *)
(*   - the recommendations table and the two writers of it, the controller *)
(*     generateRecommendations (with AIService.generateRecommendations)    *)
(*     and the model Recommendation.generateForUser (with createOrUpdate), *)
(*     interleaved at their awaited queries;                               *)
(*   - the pure scoring functions of the aiService module.                 *)
(* Numbers are fixed point: ONE stands for 1.0, and every division the     *)
(* code makes is exact for the sizes the model reaches.                    *)
(***************************************************************************)
EXTENDS Integers, Sequences, FiniteSets, TLC

ONE == 2520 * 1000

\* ------------------------------------------------------------------------
\* Program constants
\* ------------------------------------------------------------------------
TopN == 20
CalendarInterest == 3
ReviewCountCap == 10

\* ------------------------------------------------------------------------
\* Bounds of the model
\* ------------------------------------------------------------------------
MaxRuns == 2
MaxFailures == 1
JitterPeriod == 2
MaxInFlight == 1
MaxLen == 5
MaxPage == 4
MaxLimit == 3

Users == {1, 2}
Procs == {1, 2}

\* ------------------------------------------------------------------------
\* Generic helpers
\* ------------------------------------------------------------------------
EmptyFn == [x \in {} |-> 0]

Min2(a, b) == IF a < b THEN a ELSE b

Max2(a, b) == IF a > b THEN a ELSE b

Abs(x) == IF x < 0 THEN 0 - x ELSE x

\* the elements of a set of numbers in ascending, descending order
AscSeq(S) ==
    [k \in 1..Cardinality(S) |->
        CHOOSE x \in S : Cardinality({y \in S : y < x}) = k - 1]

DescSeq(S) ==
    [k \in 1..Cardinality(S) |->
        CHOOSE x \in S : Cardinality({y \in S : y > x}) = k - 1]

RECURSIVE Flatten(_)
Flatten(ss) == IF ss = <<>> THEN <<>> ELSE Head(ss) \o Flatten(Tail(ss))

RECURSIVE SumSeq(_)
SumSeq(s) == IF s = <<>> THEN 0 ELSE Head(s) + SumSeq(Tail(s))

RECURSIVE SumRating(_)
SumRating(S) ==
    IF S = {} THEN 0
    ELSE LET r == CHOOSE x \in S : TRUE IN r.rating + SumRating(S \ {r})

Range(s) == {s[i] : i \in DOMAIN s}

Prefix(s, n) == SubSeq(s, 1, Min2(n, Len(s)))

\* ------------------------------------------------------------------------
\* Variables
\* ------------------------------------------------------------------------
VARIABLES
    events,      \* events table: id -> [upcoming, cats, avg_rating]
    reviews,     \* reviews table: set of [user_id, event_id, rating]
    calendars,   \* calendars table: set of [user_id, event_id]
    recs,        \* recommendations table: sequence of rows, in insertion order
    nextRecId,   \* AUTO_INCREMENT counter of the recommendations table
    failBudget,  \* how many storage writes may still fail
    runsLeft,    \* how many generation requests may still start
    maxActive,   \* how many generation requests may be in progress at once
    maxInFlight, \* how many row callbacks of one request may be between
                 \* their SELECT and their write at once
    run,         \* per request: position and locals of the handler
    writes,      \* history: every (user, event, score, reason) written so far
    lastWrite,   \* history: the last completed write of each (user, event)
    sc,          \* the aiService call: its arguments, locals and result
    notifications, \* notifications table: sequence of rows, in insertion order
    nextReviewId,  \* AUTO_INCREMENT counter of the reviews table
    users,         \* users table: id -> row
    nextEventId,   \* AUTO_INCREMENT counter of the events table
    connections,   \* pool connections handed out and not yet released
    now,           \* the clock, in seconds
    issuedTokens,  \* history: the reset tokens handed out, in order
    spentTokens,   \* history: the tokens a password was reset with
    call           \* a helper or query builder call: arguments and result

vars == <<events, reviews, calendars, recs, nextRecId, failBudget, runsLeft,
          maxActive, maxInFlight, run, writes, lastWrite, sc,
          notifications, nextReviewId, users, nextEventId, connections,
          now, issuedTokens, spentTokens, call>>

\* the tables the recommendation handlers neither read nor write
authVars == <<now, issuedTokens, spentTokens>>

siteVars == <<notifications, nextReviewId, users, nextEventId, connections,
              authVars, call>>

dbVars == <<events, reviews, calendars, maxActive, maxInFlight, sc, siteVars>>

\* ------------------------------------------------------------------------
\* The stored data the runs read
\* ------------------------------------------------------------------------
SmallCatalog ==
    (1 :> [upcoming |-> TRUE, cats |-> <<1>>]) @@
    (2 :> [upcoming |-> TRUE, cats |-> <<1, 2>>]) @@
    (3 :> [upcoming |-> TRUE, cats |-> <<2>>]) @@
    (4 :> [upcoming |-> FALSE, cats |-> <<1>>])

BigCatalog ==
    [e \in 1..(TopN + 3) |-> [upcoming |-> e <= TopN + 2, cats |-> <<1>>]]

Rv(u, e, r) == [user_id |-> u, event_id |-> e, rating |-> r]

Cal(u, e) == [user_id |-> u, event_id |-> e]

\* the stored reviews and calendar entries the small specifications start from
Scenarios ==
    { [revs |-> {}, cals |-> {}],
      [revs |-> {}, cals |-> {Cal(1, 4)}],
      [revs |-> {Rv(1, 4, 5), Rv(1, 3, 4)}, cals |-> {Cal(1, 1)}],
      [revs |-> {Rv(1, 4, 5), Rv(2, 1, 5), Rv(2, 2, 5)}, cals |-> {}],
      [revs |-> {Rv(1, 1, 3), Rv(1, 2, 3), Rv(1, 3, 3)}, cals |-> {}],
      [revs |-> {Rv(2, 1, 5), Rv(2, 2, 2)}, cals |-> {}] }

BigReviews ==
    {Rv(1, TopN + 3, 5)} \cup {Rv(2, e, (e % 5) + 1) : e \in 1..(TopN + 2)}

\* events.avg_rating as the review handlers keep it: the mean rating of the
\* event's reviews, 0 without reviews
AvgRatingOf(revs, e) ==
    LET S == {r \in revs : r.event_id = e}
    IN IF S = {} THEN 0 ELSE (SumRating(S) * ONE) \div Cardinality(S)

EventsTable(catalog, revs) ==
    [e \in DOMAIN catalog |->
        [upcoming |-> catalog[e].upcoming,
         cats |-> catalog[e].cats,
         avg_rating |-> AvgRatingOf(revs, e)]]

\* ------------------------------------------------------------------------
\* The recommendations table
\* ------------------------------------------------------------------------
\* the lookup with its event_id condition dropped
SelectByPairAnyEvent(t, u, e) ==
    SelectSeq(t, LAMBDA r : r.user_id = u)

\* SELECT ... FROM recommendations WHERE user_id = ? AND event_id = ?
SelectByPair(t, u, e) ==
    SelectSeq(t, LAMBDA r : r.user_id = u /\ r.event_id = e)

\* INSERT INTO recommendations (user_id, event_id, score, reason)
InsertRec(t, id, u, e, s, rsn) ==
    Append(t, [id |-> id, user_id |-> u, event_id |-> e, score |-> s,
               reason |-> rsn])

\* UPDATE recommendations SET score = ?, reason = ? WHERE id = ?
UpdateById(t, id, s, rsn) ==
    [i \in DOMAIN t |->
        IF t[i].id = id THEN [t[i] EXCEPT !.score = s, !.reason = rsn]
        ELSE t[i]]

\* UPDATE recommendations SET score = ?, reason = ?
\*   WHERE user_id = ? AND event_id = ?
UpdateByPair(t, u, e, s, rsn) ==
    [i \in DOMAIN t |->
        IF t[i].user_id = u /\ t[i].event_id = e
        THEN [t[i] EXCEPT !.score = s, !.reason = rsn]
        ELSE t[i]]

\* SELECT r.* ... WHERE r.id = ?
FindById(t, id) == SelectSeq(t, LAMBDA r : r.id = id)

\* sort((a, b) => b.score - a.score): stable, descending by score;
\* where s[i] lands: after every element with a higher score and after the
\* earlier elements with the same score
RankDesc(s, i) ==
    1 + Cardinality({j \in DOMAIN s : s[j].score > s[i].score})
      + Cardinality({j \in 1..(i - 1) : s[j].score = s[i].score})

SortDesc(s) ==
    [k \in 1..Len(s) |-> s[CHOOSE i \in DOMAIN s : RankDesc(s, i) = k]]

\* SELECT r.* ... WHERE r.user_id = ? ORDER BY r.score DESC
UserRecsByScore(t, u) == SortDesc(SelectSeq(t, LAMBDA r : r.user_id = u))

\* ------------------------------------------------------------------------
\* Recommendation.generateForUser: its queries and its scoring
\* ------------------------------------------------------------------------
RECURSIVE SetToSeq(_)
SetToSeq(S) ==
    IF S = {} THEN <<>>
    ELSE LET x == CHOOSE y \in S : TRUE IN <<x>> \o SetToSeq(S \ {x})

\* reviews r JOIN events e JOIN event_categories ec WHERE r.user_id = ?
\* one row per (review, category of its event)
ReviewRows(u) ==
    LET rs == SetToSeq({r \in reviews : r.user_id = u})
    IN Flatten([i \in 1..Len(rs) |->
            [j \in 1..Len(events[rs[i].event_id].cats) |->
                [event_id |-> rs[i].event_id, rating |-> rs[i].rating,
                 category_id |-> events[rs[i].event_id].cats[j]]]])

\* calendars c JOIN events e JOIN event_categories ec WHERE c.user_id = ?
CalendarRows(u) ==
    LET cs == SetToSeq({c \in calendars : c.user_id = u})
    IN Flatten([i \in 1..Len(cs) |->
            [j \in 1..Len(events[cs[i].event_id].cats) |->
                [event_id |-> cs[i].event_id,
                 category_id |-> events[cs[i].event_id].cats[j]]]])

Bump(f, k, v) ==
    IF k \in DOMAIN f THEN [f EXCEPT ![k] = @ + v] ELSE f @@ (k :> v)

RECURSIVE FoldReviewInterest(_, _)
FoldReviewInterest(f, rows) ==
    IF rows = <<>> THEN f
    ELSE FoldReviewInterest(Bump(f, Head(rows).category_id, Head(rows).rating),
                            Tail(rows))

RECURSIVE FoldCalendarInterest(_, _)
FoldCalendarInterest(f, rows) ==
    IF rows = <<>> THEN f
    ELSE FoldCalendarInterest(Bump(f, Head(rows).category_id, CalendarInterest),
                              Tail(rows))

CategoryInterest(u) ==
    FoldCalendarInterest(FoldReviewInterest(EmptyFn, ReviewRows(u)),
                         CalendarRows(u))

OrderedIds(S, ord) == IF ord = "asc" THEN AscSeq(S) ELSE DescSeq(S)

InCalendar(u, e) == \E c \in calendars : c.user_id = u /\ c.event_id = e

Reviewed(u, e) == \E r \in reviews : r.user_id = u /\ r.event_id = e

ReviewCount(e) == Cardinality({r \in reviews : r.event_id = e})

\* the events of generateForUser's upcomingEvents query, in row order
ModelCandidates(u, ord) ==
    OrderedIds({e \in DOMAIN events :
                    /\ events[e].upcoming
                    /\ events[e].cats # <<>>
                    /\ ~InCalendar(u, e)}, ord)

\* the rows of the query: GROUP BY e.id, ec.category_id
UpcomingRows(u, ord) ==
    LET es == ModelCandidates(u, ord)
    IN Flatten([i \in 1..Len(es) |->
            [j \in 1..Len(events[es[i]].cats) |->
                [id |-> es[i], category_id |-> events[es[i]].cats[j],
                 avg_rating |-> events[es[i]].avg_rating,
                 review_count |-> ReviewCount(es[i])]]])

\* what one row adds to its event's score
RowScore(ci, row) ==
    LET categoryScore ==
            IF row.category_id \in DOMAIN ci THEN ci[row.category_id] ELSE 0
    IN (categoryScore * ONE) \div 5
       + row.avg_rating \div 2
       + (Min2(row.review_count, ReviewCountCap) * ONE * 3) \div 100

\* scoredEvents after the forEach: per event id, the sum over its rows
ScoredEvents(ci, rows) ==
    [id \in {rows[i].id : i \in DOMAIN rows} |->
        LET mine == SelectSeq(rows, LAMBDA r : r.id = id)
        IN SumSeq([i \in 1..Len(mine) |-> RowScore(ci, mine[i])])]

\* parseFloat(x.toFixed(4))
ToFixed4(x) ==
    LET unit == ONE \div 10000 IN ((x + unit \div 2) \div unit) * unit

\* Object.values(scoredEvents): integer keys come in ascending order
ObjectValues(acc) ==
    LET ks == AscSeq(DOMAIN acc)
    IN [i \in 1..Len(ks) |-> [event_id |-> ks[i], score |-> acc[ks[i]]]]

\* Object.values(...).map(...).filter(score > 0).sort(...)
ModelRanked(u, ord) ==
    LET vals == ObjectValues(
                    ScoredEvents(CategoryInterest(u), UpcomingRows(u, ord)))
        mapped == [i \in 1..Len(vals) |->
                      [user_id |-> u, event_id |-> vals[i].event_id,
                       score |-> ToFixed4(vals[i].score),
                       reason |-> "based_on"]]
    IN SortDesc(SelectSeq(mapped, LAMBDA x : x.score > 0))

\* recommendations.slice(0, 20)
ModelRecommendations(u, ord) == Prefix(ModelRanked(u, ord), TopN)

\* ------------------------------------------------------------------------
\* The controller's queries and AIService.generateRecommendations
\* ------------------------------------------------------------------------
\* events that the user has neither reviewed nor put in the calendar
AvailableEvents(u, ord) ==
    OrderedIds({e \in DOMAIN events :
                    /\ events[e].upcoming
                    /\ events[e].cats # <<>>
                    /\ ~Reviewed(u, e)
                    /\ ~InCalendar(u, e)}, ord)

RECURSIVE FoldCategoryPreferences(_, _)
FoldCategoryPreferences(f, rows) ==
    IF rows = <<>> THEN f
    ELSE FoldCategoryPreferences(
            LET r == Head(rows)
            IN IF r.category_id \in DOMAIN f
               THEN [f EXCEPT ![r.category_id] =
                        [count |-> @.count + 1,
                         totalRating |-> @.totalRating + r.rating]]
               ELSE f @@ (r.category_id :>
                            [count |-> 1, totalRating |-> r.rating]),
            Tail(rows))

CategoryPreferences(rows) ==
    LET f == FoldCategoryPreferences(EmptyFn, rows)
    IN [c \in DOMAIN f |->
          [count |-> f[c].count, totalRating |-> f[c].totalRating,
           avgRating |-> (f[c].totalRating * ONE) \div f[c].count]]

Clamp01(x) == Min2(Max2(x, 0), ONE)

\* Math.random() * 0.1, a value of [0, 0.1)
JitterVals == {0, ONE \div 10 - 1}

JitterStreams == [1..JitterPeriod -> JitterVals]

JitterAt(js, i) == js[((i - 1) % JitterPeriod) + 1]

ReasonFor(score) ==
    IF score * 10 > ONE * 8 THEN "highly"
    ELSE IF score * 10 > ONE * 6 THEN "similar"
    ELSE IF score * 10 > ONE * 4 THEN "might"
    ELSE "different"

AIScore(prefs, nrows, e, jitter) ==
    LET matched == SelectSeq(events[e].cats, LAMBDA c : c \in DOMAIN prefs)
        parts == [i \in 1..Len(matched) |->
                     (prefs[matched[i]].avgRating * 4) \div 25
                     + ((prefs[matched[i]].count * ONE) \div nrows) \div 5]
        base == IF Len(matched) > 0 THEN SumSeq(parts) \div Len(matched)
                ELSE ONE \div 2
    IN Clamp01(base + jitter)

AIRecommendations(u, cand, js) ==
    LET rows == ReviewRows(u)
        prefs == CategoryPreferences(rows)
        scored == [i \in 1..Len(cand) |->
                     LET s == AIScore(prefs, Len(rows), cand[i], JitterAt(js, i))
                     IN [user_id |-> u, event_id |-> cand[i], score |-> s,
                         reason |-> ReasonFor(s)]]
    IN SortDesc(scored)

\* ------------------------------------------------------------------------
\* aiService: analyzeUserPreferences, calculateCompatibilityScore,
\* generateRecommendationReason, generateRecommendations and its fallback.
\* A text is the set of the lexicon words that occur in it.
\* ------------------------------------------------------------------------
TopFive == 5
FallbackWindow == 10

PositiveKeywords ==
    {"great", "amazing", "excellent", "good", "love", "best", "awesome",
     "enjoyed"}

NegativeKeywords ==
    {"bad", "terrible", "awful", "poor", "hate", "worst", "disappointed"}

\* values of a field that holds no number, and the number that is none
Undefined == 0 - (100 * ONE + 1)
Null == 0 - (100 * ONE + 2)
NaN == 0 - (100 * ONE + 3)

\* the number an arithmetic operator makes of a field's value
ToNumber(v) == IF v = Undefined THEN NaN ELSE IF v = Null THEN 0 ELSE v

\* one entry per (review, category of its event), in review order
ReviewCategoryRows(userReviews) ==
    Flatten([i \in 1..Len(userReviews) |->
        [j \in 1..Len(userReviews[i].cats) |->
            [category_id |-> userReviews[i].cats[j],
             rating |-> userReviews[i].rating]]])

\* the analysis with its early return for no reviews left out: 0 / 0
AnalyzeUserPreferencesUnguarded(userReviews) ==
    LET rows == ReviewCategoryRows(userReviews)
        allReviewText == UNION {userReviews[i].words : i \in DOMAIN userReviews}
    IN [categories |->
          [c \in {rows[i].category_id : i \in DOMAIN rows} |->
              LET mine == SelectSeq(rows, LAMBDA r : r.category_id = c)
                  total == SumSeq([i \in 1..Len(mine) |-> mine[i].rating])
              IN [count |-> Len(mine),
                  avgRating |-> (total * ONE) \div Len(mine)]],
        avgRating |->
          IF Len(userReviews) = 0 THEN NaN
          ELSE (SumSeq([i \in 1..Len(userReviews) |-> userReviews[i].rating])
                    * ONE) \div Len(userReviews),
        positiveKeywords |-> PositiveKeywords \cap allReviewText,
        negativeKeywords |-> NegativeKeywords \cap allReviewText]

AnalyzeUserPreferences(userReviews) ==
    IF Len(userReviews) = 0
    THEN [categories |-> EmptyFn, avgRating |-> 0, positiveKeywords |-> {},
          negativeKeywords |-> {}]
    ELSE
      LET rows == ReviewCategoryRows(userReviews)
          allReviewText == UNION {userReviews[i].words : i \in DOMAIN userReviews}
      IN [categories |->
            [c \in {rows[i].category_id : i \in DOMAIN rows} |->
                LET mine == SelectSeq(rows, LAMBDA r : r.category_id = c)
                    total == SumSeq([i \in 1..Len(mine) |-> mine[i].rating])
                IN [count |-> Len(mine),
                    avgRating |-> (total * ONE) \div Len(mine)]],
          avgRating |->
            (SumSeq([i \in 1..Len(userReviews) |-> userReviews[i].rating]) * ONE)
                \div Len(userReviews),
          positiveKeywords |-> PositiveKeywords \cap allReviewText,
          negativeKeywords |-> NegativeKeywords \cap allReviewText]

\* the category match with its cap at 1 left out
CategoryScoreUncapped(event, preferences) ==
    IF Len(event.cats) = 0 THEN 0
    ELSE
      LET known == SelectSeq(event.cats,
                             LAMBDA c : c \in DOMAIN preferences.categories)
          parts == [i \in 1..Len(known) |->
                      LET catPref == preferences.categories[known[i]]
                      IN ((catPref.avgRating \div 5) * catPref.count) \div 10]
      IN SumSeq(parts) \div Len(event.cats)

\* Math.min(categoryScore, 1) / event.categories.length
CategoryScore(event, preferences) ==
    IF Len(event.cats) = 0 THEN 0
    ELSE
      LET known == SelectSeq(event.cats,
                             LAMBDA c : c \in DOMAIN preferences.categories)
          parts == [i \in 1..Len(known) |->
                      LET catPref == preferences.categories[known[i]]
                      IN ((catPref.avgRating \div 5) * catPref.count) \div 10]
      IN Min2(SumSeq(parts), ONE) \div Len(event.cats)

\* 1 - Math.abs(event.avg_rating - preferences.avgRating) / 5
RatingScore(event, preferences) ==
    IF ToNumber(event.avg_rating) = NaN THEN NaN
    ELSE ONE - Abs(ToNumber(event.avg_rating) - preferences.avgRating) \div 5

\* Math.max(-1, Math.min(1, keywordScore)), then (keywordScore + 1) / 2
KeywordScoreNormalized(event, preferences) ==
    LET hits == Cardinality(preferences.positiveKeywords \cap event.words)
        misses == Cardinality(preferences.negativeKeywords \cap event.words)
        keywordScore == ((hits - misses) * ONE) \div 10
        clamped == Max2(0 - ONE, Min2(ONE, keywordScore))
    IN (clamped + ONE) \div 2

CalculateCompatibilityScore(event, preferences) ==
    LET base == ONE \div 2
        withCategory ==
            IF Len(event.cats) > 0
            THEN base + (CategoryScore(event, preferences) * 4) \div 10
            ELSE base
        withRating == withCategory + (RatingScore(event, preferences) * 3) \div 10
        withKeywords ==
            withRating + (KeywordScoreNormalized(event, preferences) * 3) \div 10
    IN IF RatingScore(event, preferences) = NaN THEN NaN
       ELSE Max2(0, Min2(ONE, withKeywords))

GenerateRecommendationReason(score) ==
    IF score = NaN THEN "different"
    ELSE IF score * 10 > ONE * 8 THEN "highly"
    ELSE IF score * 10 > ONE * 6 THEN "similar"
    ELSE IF score * 10 > ONE * 4 THEN "might"
    ELSE "different"

GenerateFallbackRecommendations(evs) ==
    LET window == Prefix(evs, FallbackWindow)
    IN Prefix(SortDesc([i \in 1..Len(window) |->
                  [eventId |-> window[i].id,
                   score |-> IF ToNumber(window[i].avg_rating) = NaN THEN NaN
                             ELSE ToNumber(window[i].avg_rating) \div 5,
                   reason |-> "popularity"]]), TopFive)

ScoredRecommendations(evs, userReviews) ==
    LET userPreferences == AnalyzeUserPreferences(userReviews)
    IN Prefix(SortDesc([i \in 1..Len(evs) |->
                  LET score == CalculateCompatibilityScore(evs[i], userPreferences)
                  IN [eventId |-> evs[i].id, score |-> score,
                      reason |-> GenerateRecommendationReason(score)]]), TopFive)

\* the locals of calculateCompatibilityScore, call by call of the loop
ScoringLocals(evs, userReviews) ==
    LET userPreferences == AnalyzeUserPreferences(userReviews)
    IN [i \in 1..Len(evs) |->
          [categoryScore |-> CategoryScore(evs[i], userPreferences),
           ratingScore |-> RatingScore(evs[i], userPreferences),
           keywordScore |-> KeywordScoreNormalized(evs[i], userPreferences),
           score |-> CalculateCompatibilityScore(evs[i], userPreferences)]]

\* ---- the inputs the calls are made with ---------------------------------
Rvw(r, cs, ws) == [rating |-> r, cats |-> cs, words |-> ws]

Evt(id, avg, cs, ws) == [id |-> id, avg_rating |-> avg, cats |-> cs, words |-> ws]

\* ten reviews of 5 in category 1 and two reviews of 2 of events without
\* categories: category 1 has average 5 and count 10, the overall average is 4.5
DevotedReviews ==
    [i \in 1..12 |-> IF i <= 10 THEN Rvw(5, <<1>>, {}) ELSE Rvw(2, <<>>, {})]

\* twelve reviews of 5 of events in category 1: its sum term is 1.2
EagerReviews == [i \in 1..12 |-> Rvw(5, <<1>>, {})]

ReviewListInputs ==
    { <<>>,
      DevotedReviews,
      EagerReviews,
      <<Rvw(4, <<1, 2>>, {"great"}), Rvw(2, <<2>>, {"bad"})>>,
      <<Rvw(5, <<1>>, {"great", "love"})>>,
      <<Rvw(1, <<2>>, {"terrible"})>> }

EventPool ==
    <<Evt(1, (ONE * 9) \div 2, <<1>>, {}),
      Evt(2, ONE * 5, <<2>>, {}),
      Evt(3, 0, <<>>, {"great"}),
      Evt(4, ONE * 4, <<1, 2>>, {"bad", "great"}),
      Evt(5, ONE * 2, <<2>>, {"terrible"}),
      Evt(6, ONE * 4, <<1, 2>>, {"love"}),
      Evt(7, ONE * 3, <<1>>, {})>>

\* events whose avg_rating is absent, is null
UnratedEvent == Evt(8, Undefined, <<1>>, {})

NullRatedEvent == Evt(9, Null, <<1>>, {})

EventListInputs ==
    { <<>>,
      <<UnratedEvent>>,
      <<NullRatedEvent>>,
      <<EventPool[1]>>,
      <<EventPool[2]>>,
      SubSeq(EventPool, 1, 4),
      [i \in 1..4 |-> EventPool[5 - i]],
      EventPool,
      [i \in 1..12 |-> EventPool[((i * 3) % 7) + 1]] }

ScIdle ==
    [pc |-> "idle", apiKey |-> FALSE, reviews |-> <<>>, events |-> <<>>,
     fallback |-> FALSE, userPreferences |-> <<>>, locals |-> <<>>,
     out |-> <<>>]

\* exports.generateRecommendations(user, events, userReviews)
AiGenerate ==
    /\ sc.pc = "call"
    /\ LET fallback == ~sc.apiKey \/ Len(sc.events) = 0
       IN sc' = [sc EXCEPT !.pc = "returned", !.fallback = fallback,
                    !.userPreferences =
                        IF fallback THEN <<>>
                        ELSE AnalyzeUserPreferences(sc.reviews),
                    !.locals = IF fallback THEN <<>>
                               ELSE ScoringLocals(sc.events, sc.reviews),
                    !.out = IF fallback
                            THEN GenerateFallbackRecommendations(sc.events)
                            ELSE ScoredRecommendations(sc.events, sc.reviews)]
    /\ UNCHANGED <<events, reviews, calendars, recs, nextRecId, failBudget,
                   runsLeft, maxActive, maxInFlight, run, writes, lastWrite,
                   siteVars>>


\* ------------------------------------------------------------------------
\* Requests: one record of handler locals per request slot
\* ------------------------------------------------------------------------
Orders == {"asc", "desc"}

NoRow == [id |-> 0, user_id |-> 0, event_id |-> 0, score |-> 0,
          reason |-> "undefined"]

IdleRun ==
    [pc |-> "idle", user |-> 0, path |-> "none", cand |-> <<>>,
     catPrefs |-> EmptyFn, catInterest |-> EmptyFn, ranked |-> <<>>,
     list |-> <<>>, failedAt |-> {},
     st |-> <<>>, idx |-> 0, found |-> 0, saved |-> <<>>,
     status |-> "none", data |-> <<>>, wrote |-> {}, args |-> <<>>]

Active(p) == run[p].pc \notin {"idle", "done"}

CanStart(p) ==
    /\ ~Active(p)
    /\ runsLeft > 0
    /\ Cardinality({q \in Procs : Active(q)}) < maxActive

SetKey(f, k, v) == [x \in DOMAIN f \cup {k} |-> IF x = k THEN v ELSE f[x]]

WriteRec(rec) ==
    [user_id |-> rec.user_id, event_id |-> rec.event_id,
     score |-> rec.score, reason |-> rec.reason]

\* history of the writes, kept next to every UPDATE and INSERT
NoteWrite(rec) ==
    /\ writes' = writes \cup {WriteRec(rec)}
    /\ lastWrite' = SetKey(lastWrite, <<rec.user_id, rec.event_id>>,
                           WriteRec(rec))

Settled(st) == \A i \in DOMAIN st : st[i] \in {"done", "failed"}

InFlight(st) == Cardinality({i \in DOMAIN st : st[i] \in {"new", "exists"}})

\* the controller's start with its check for no available events left out
CtlGenerateUnchecked(p) ==
    /\ CanStart(p)
    /\ \E u \in Users, ord \in Orders, js \in JitterStreams :
         LET cand == AvailableEvents(u, ord)
             list == AIRecommendations(u, cand, js)
             base == [IdleRun EXCEPT !.user = u, !.path = "ctl",
                                     !.cand = cand]
         IN run' = [run EXCEPT ![p] =
                [base EXCEPT !.pc = IF list = <<>> THEN "respond"
                                    ELSE "persist",
                        !.catPrefs = CategoryPreferences(ReviewRows(u)),
                        !.ranked = list, !.list = list,
                        !.st = [i \in 1..Len(list) |-> "todo"]]]
    /\ runsLeft' = runsLeft - 1
    /\ UNCHANGED <<dbVars, recs, nextRecId, failBudget, writes,
                   lastWrite>>

\* ---- controller: exports.generateRecommendations -------------------------
\* the three reads, the empty check and the call of the AI service
CtlGenerate(p) ==
    /\ CanStart(p)
    /\ \E u \in Users, ord \in Orders, js \in JitterStreams :
         LET cand == AvailableEvents(u, ord)
             list == AIRecommendations(u, cand, js)
             base == [IdleRun EXCEPT !.user = u, !.path = "ctl",
                                     !.cand = cand]
         IN run' = [run EXCEPT ![p] =
                IF cand = <<>>
                THEN [base EXCEPT !.pc = "done", !.status = "ok"]
                ELSE [base EXCEPT !.pc = "persist",
                        !.catPrefs = CategoryPreferences(ReviewRows(u)),
                        !.ranked = list, !.list = list,
                        !.st = [i \in 1..Len(list) |-> "todo"]]]
    /\ runsLeft' = runsLeft - 1
    /\ UNCHANGED <<dbVars, recs, nextRecId, failBudget, writes,
                   lastWrite>>

\* SELECT * FROM recommendations WHERE user_id = ? AND event_id = ?
CtlSelect(p, i) ==
    /\ run[p].pc = "persist"
    /\ i \in DOMAIN run[p].st
    /\ run[p].st[i] = "todo"
    /\ \A j \in 1..(i - 1) : run[p].st[j] # "todo"
    /\ InFlight(run[p].st) < maxInFlight
    /\ run' = [run EXCEPT ![p].st[i] =
            IF Len(SelectByPair(recs, run[p].user, run[p].list[i].event_id)) > 0
            THEN "exists" ELSE "new"]
    /\ UNCHANGED <<dbVars, recs, nextRecId, failBudget, runsLeft,
                   writes, lastWrite>>

\* what the request is left with once row i has been written or has failed
AfterRow(r, i, outcome, status) ==
    LET st2 == [r.st EXCEPT ![i] = outcome]
    IN [r EXCEPT !.st = st2,
                 !.status = status,
                 !.failedAt = IF outcome = "failed" THEN @ \cup {i} ELSE @,
                 !.wrote = IF outcome = "done"
                           THEN @ \cup {r.list[i].event_id} ELSE @,
                 !.pc = IF ~Settled(st2) THEN "persist"
                        ELSE IF status = "error" THEN "done" ELSE "respond"]

CtlUpdate(p, i) ==
    /\ run[p].pc = "persist"
    /\ i \in DOMAIN run[p].st
    /\ run[p].st[i] = "exists"
    /\ LET rec == run[p].list[i]
       IN /\ recs' = UpdateByPair(recs, run[p].user, rec.event_id, rec.score,
                                  rec.reason)
          /\ NoteWrite(rec)
    /\ run' = [run EXCEPT ![p] = AfterRow(run[p], i, "done", run[p].status)]
    /\ UNCHANGED <<dbVars, nextRecId, failBudget, runsLeft>>

CtlInsert(p, i) ==
    /\ run[p].pc = "persist"
    /\ i \in DOMAIN run[p].st
    /\ run[p].st[i] = "new"
    /\ LET rec == run[p].list[i]
       IN /\ recs' = InsertRec(recs, nextRecId, run[p].user, rec.event_id,
                               rec.score, rec.reason)
          /\ NoteWrite(rec)
    /\ nextRecId' = nextRecId + 1
    /\ run' = [run EXCEPT ![p] = AfterRow(run[p], i, "done", run[p].status)]
    /\ UNCHANGED <<dbVars, failBudget, runsLeft>>

\* the UPDATE or INSERT of row i rejects: Promise.all rejects, the catch
\* block answers 500, the callbacks of the other rows keep running
CtlWriteFail(p, i) ==
    /\ run[p].pc = "persist"
    /\ i \in DOMAIN run[p].st
    /\ run[p].st[i] \in {"new", "exists"}
    /\ failBudget > 0
    /\ failBudget' = failBudget - 1
    /\ run' = [run EXCEPT ![p] = AfterRow(run[p], i, "failed", "error")]
    /\ UNCHANGED <<dbVars, recs, nextRecId, runsLeft, writes,
                   lastWrite>>

\* the final SELECT of the user's rows and the 200 response
CtlRespond(p) ==
    /\ run[p].pc = "respond"
    /\ run' = [run EXCEPT ![p].pc = "done", ![p].status = "ok",
                          ![p].data = UserRecsByScore(recs, run[p].user)]
    /\ UNCHANGED <<dbVars, recs, nextRecId, failBudget, runsLeft,
                   writes, lastWrite>>

\* ---- model: Recommendation.generateForUser --------------------------------
\* the three reads, the scoring, the ranking and the slice
MdlGenerate(p) ==
    /\ CanStart(p)
    /\ \E u \in Users, ord \in Orders :
         LET list == ModelRecommendations(u, ord)
             base == [IdleRun EXCEPT !.user = u, !.path = "mdl",
                                     !.cand = ModelCandidates(u, ord),
                                     !.catInterest = CategoryInterest(u),
                                     !.ranked = ModelRanked(u, ord),
                                     !.list = list]
         IN run' = [run EXCEPT ![p] =
                IF list = <<>>
                THEN [base EXCEPT !.pc = "done", !.status = "ok"]
                ELSE [base EXCEPT !.pc = "m_select", !.idx = 1]]
    /\ runsLeft' = runsLeft - 1
    /\ UNCHANGED <<dbVars, recs, nextRecId, failBudget, writes,
                   lastWrite>>

\* createOrUpdate: SELECT id FROM recommendations WHERE user_id, event_id
MdlSelect(p) ==
    /\ run[p].pc = "m_select"
    /\ LET rows == SelectByPair(recs, run[p].user,
                                run[p].list[run[p].idx].event_id)
       IN run' = [run EXCEPT ![p].pc = "m_write",
                    ![p].found = IF rows # <<>> THEN Head(rows).id ELSE 0]
    /\ UNCHANGED <<dbVars, recs, nextRecId, failBudget, runsLeft,
                   writes, lastWrite>>

\* createOrUpdate: UPDATE ... WHERE id = ?
MdlUpdate(p) ==
    /\ run[p].pc = "m_write"
    /\ run[p].found # 0
    /\ LET rec == run[p].list[run[p].idx]
       IN /\ recs' = UpdateById(recs, run[p].found, rec.score, rec.reason)
          /\ NoteWrite(rec)
          /\ run' = [run EXCEPT ![p].pc = "m_find",
                                ![p].wrote = @ \cup {rec.event_id}]
    /\ UNCHANGED <<dbVars, nextRecId, failBudget, runsLeft>>

\* createOrUpdate: INSERT, result.insertId
MdlInsert(p) ==
    /\ run[p].pc = "m_write"
    /\ run[p].found = 0
    /\ LET rec == run[p].list[run[p].idx]
       IN /\ recs' = InsertRec(recs, nextRecId, rec.user_id, rec.event_id,
                               rec.score, rec.reason)
          /\ NoteWrite(rec)
          /\ run' = [run EXCEPT ![p].pc = "m_find", ![p].found = nextRecId,
                                ![p].wrote = @ \cup {rec.event_id}]
    /\ nextRecId' = nextRecId + 1
    /\ UNCHANGED <<dbVars, failBudget, runsLeft>>

\* the write throws: createOrUpdate rethrows, generateForUser rethrows
MdlWriteFail(p) ==
    /\ run[p].pc = "m_write"
    /\ failBudget > 0
    /\ failBudget' = failBudget - 1
    /\ run' = [run EXCEPT ![p].pc = "done", ![p].status = "error",
                          ![p].failedAt = {run[p].idx}]
    /\ UNCHANGED <<dbVars, recs, nextRecId, runsLeft, writes,
                   lastWrite>>

\* createOrUpdate: findById, then savedRecommendations.push(saved)
MdlFind(p) ==
    /\ run[p].pc = "m_find"
    /\ LET rows == FindById(recs, run[p].found)
           saved2 == Append(run[p].saved,
                            IF rows # <<>> THEN Head(rows) ELSE NoRow)
           last == run[p].idx = Len(run[p].list)
       IN run' = [run EXCEPT ![p].saved = saved2,
                    ![p].idx = @ + 1,
                    ![p].pc = IF last THEN "done" ELSE "m_select",
                    ![p].status = IF last THEN "ok" ELSE @,
                    ![p].data = IF last THEN saved2 ELSE @]
    /\ UNCHANGED <<dbVars, recs, nextRecId, failBudget, runsLeft,
                   writes, lastWrite>>

\* ---- Recommendation.getPopularEvents --------------------------------------
\* COUNT(c.id) over events LEFT JOIN reviews LEFT JOIN calendars GROUP BY e.id:
\* the joined rows of an event are its reviews (or one NULL row) times its
\* calendar entries (or one NULL row), counted where the calendar side is set
CalendarCountJoined(e) ==
    LET nr == Cardinality({r \in reviews : r.event_id = e})
        nc == Cardinality({c \in calendars : c.event_id = e})
    IN nc * Max2(nr, 1)

\* COUNT(r.id) over the same joined rows
ReviewCountJoined(e) ==
    LET nr == Cardinality({r \in reviews : r.event_id = e})
        nc == Cardinality({c \in calendars : c.event_id = e})
    IN nr * Max2(nc, 1)

\* (e.avg_rating * 0.5) + (calendar_count * 0.3) + (review_count * 0.2)
PopularityKey(avg, ncal, nrev) ==
    avg \div 2 + (ncal * ONE * 3) \div 10 + (nrev * ONE) \div 5

\* the rows of the query before ORDER BY and LIMIT, in the order ord
PopularRows(categoryId, ord) ==
    LET ids == {e \in DOMAIN events :
                   /\ events[e].upcoming
                   /\ categoryId # Null =>
                         \E k \in DOMAIN events[e].cats :
                             events[e].cats[k] = categoryId}
        es == OrderedIds(ids, ord)
    IN [i \in 1..Len(es) |->
          [id |-> es[i], avg_rating |-> events[es[i]].avg_rating,
           review_count |-> ReviewCountJoined(es[i]),
           calendar_count |-> CalendarCountJoined(es[i]),
           score |-> PopularityKey(events[es[i]].avg_rating,
                                   CalendarCountJoined(es[i]),
                                   ReviewCountJoined(es[i]))]]

PopularLimits == {1, 2, 3, 10}

PopularCategories == {Null, 1, 2}

\* one call of getPopularEvents(options)
GetPopularEvents(p) ==
    /\ CanStart(p)
    /\ \E limit \in PopularLimits, categoryId \in PopularCategories,
          ord \in Orders :
         run' = [run EXCEPT ![p] =
                    [IdleRun EXCEPT !.pc = "done", !.path = "popular",
                        !.args = [limit |-> limit, categoryId |-> categoryId],
                        !.status = "ok",
                        !.data = Prefix(SortDesc(PopularRows(categoryId, ord)),
                                        limit)]]
    /\ runsLeft' = runsLeft - 1
    /\ UNCHANGED <<dbVars, recs, nextRecId, failBudget, writes, lastWrite>>

\* ---- controller: exports.getTopRecommendations ----------------------------
DefaultTopLimit == 5

\* the rows of a table in the order ord: as stored, or reversed
InOrder(t, ord) ==
    IF ord = "asc" THEN t ELSE [i \in 1..Len(t) |-> t[Len(t) + 1 - i]]

\* the rows of every user with an upcoming event
TopRecommendationRowsAnyUser(u, ord) ==
    SelectSeq(InOrder(recs, ord), LAMBDA r : events[r.event_id].upcoming)

\* WHERE r.user_id = ? AND e.date >= CURDATE() AND e.status = 'upcoming'
TopRecommendationRows(u, ord) ==
    SelectSeq(InOrder(recs, ord),
              LAMBDA r : r.user_id = u /\ events[r.event_id].upcoming)

\* a string is the sequence of its characters
DigitValue == ("0" :> 0) @@ ("1" :> 1) @@ ("2" :> 2) @@ ("3" :> 3)

\* parseInt(string): an optional sign, then the longest run of digits
ParseInt(str) ==
    LET negative == str # <<>> /\ str[1] = "-"
        rest == IF negative THEN Tail(str) ELSE str
        n == Cardinality({k \in 1..Len(rest) :
                             \A m \in 1..k : rest[m] \in DOMAIN DigitValue})
        value[k \in 0..n] ==
            IF k = 0 THEN 0 ELSE value[k - 1] * 10 + DigitValue[rest[k]]
    IN IF n = 0 THEN NaN
       ELSE IF negative THEN 0 - value[n] ELSE value[n]

\* req.query.limit when the query string has none
Absent == <<"undefined">>

\* req.query.limit: absent, or a string
TopLimits ==
    {Absent, <<"1">>, <<"2">>, <<"1", "0">>, <<"2", "a">>, <<"a">>,
     <<"-", "1">>}

\* const { limit = 5 } = req.query; parseInt(limit)
ParsedLimit(limit) ==
    IF limit = Absent THEN DefaultTopLimit ELSE ParseInt(limit)

\* LIMIT ? is rejected unless its argument is a number that is not negative
LimitRejected(n) == n = NaN \/ n < 0

GetTopRecommendations(p) ==
    /\ CanStart(p)
    /\ \E u \in Users, limit \in TopLimits, ord \in Orders :
         run' = [run EXCEPT ![p] =
                    [IdleRun EXCEPT !.pc = "done", !.path = "top", !.user = u,
                        !.args = [limit |-> limit],
                        !.status = IF LimitRejected(ParsedLimit(limit))
                                   THEN "error" ELSE "ok",
                        !.data = IF LimitRejected(ParsedLimit(limit)) THEN <<>>
                                 ELSE Prefix(SortDesc(TopRecommendationRows(u, ord)),
                                             ParsedLimit(limit))]]
    /\ runsLeft' = runsLeft - 1
    /\ UNCHANGED <<dbVars, recs, nextRecId, failBudget, writes, lastWrite>>

\* ---- controller: exports.deleteRecommendation -----------------------------
\* the lookup with its user_id condition dropped
SelectByIdAnyUser(t, id, u) == SelectSeq(t, LAMBDA r : r.id = id)

\* SELECT * FROM recommendations WHERE id = ? AND user_id = ?
SelectByIdAndUser(t, id, u) ==
    SelectSeq(t, LAMBDA r : r.id = id /\ r.user_id = u)

\* DELETE FROM recommendations WHERE id = ?
DeleteById(t, id) == SelectSeq(t, LAMBDA r : r.id # id)

\* req.params.id: the ids of the stored pool and one that no row has
RequestedIds == 1..6

\* the verification query, and the 404 when it finds no row
DelSelect(p) ==
    /\ CanStart(p)
    /\ \E u \in Users, id \in RequestedIds :
         LET recommendation == SelectByIdAndUser(recs, id, u)
             base == [IdleRun EXCEPT !.path = "del", !.user = u, !.idx = id]
         IN run' = [run EXCEPT ![p] =
                IF Len(recommendation) = 0
                THEN [base EXCEPT !.pc = "done", !.status = "notfound"]
                ELSE [base EXCEPT !.pc = "d_delete",
                                  !.found = recommendation[1].id]]
    /\ runsLeft' = runsLeft - 1
    /\ UNCHANGED <<dbVars, recs, nextRecId, failBudget, writes, lastWrite>>

\* the DELETE and the 200
DelDelete(p) ==
    /\ run[p].pc = "d_delete"
    /\ recs' = DeleteById(recs, run[p].idx)
    /\ run' = [run EXCEPT ![p].pc = "done", ![p].status = "ok"]
    /\ UNCHANGED <<dbVars, nextRecId, failBudget, runsLeft, writes, lastWrite>>

\* the DELETE rejects: catch, 500
DelFail(p) ==
    /\ run[p].pc = "d_delete"
    /\ failBudget > 0
    /\ failBudget' = failBudget - 1
    /\ run' = [run EXCEPT ![p].pc = "done", ![p].status = "error"]
    /\ UNCHANGED <<dbVars, recs, nextRecId, runsLeft, writes, lastWrite>>

\* ---- the review handlers and the stored average rating --------------------
\* SELECT AVG(rating) as avg_rating FROM reviews WHERE event_id = ?
\* (NULL when the event has no review)
AvgQuery(revs, e) ==
    LET S == {r \in revs : r.event_id = e}
    IN IF S = {} THEN Null ELSE (SumRating(S) * ONE) \div Cardinality(S)

\* UPDATE events SET avg_rating = ? WHERE id = ?
SetAvgRating(evs, e, avg) ==
    [x \in DOMAIN evs |-> IF x = e THEN [evs[x] EXCEPT !.avg_rating = avg]
                          ELSE evs[x]]

\* controller helper: avgResult[0].avg_rating || 0, then the UPDATE
UpdateEventAverageRating(evs, revs, e) ==
    LET avgRating == IF AvgQuery(revs, e) = Null THEN 0 ELSE AvgQuery(revs, e)
    IN SetAvgRating(evs, e, avgRating)

\* Event.updateRating: the UPDATE only if avg_rating !== null
EventUpdateRating(evs, revs, e) ==
    IF AvgQuery(revs, e) # Null THEN SetAvgRating(evs, e, AvgQuery(revs, e))
    ELSE evs

ReviewRatings == {0, 1, 3, 5}

ReviewEventIds == {1, 2, 9}

ReviewDone(p, op, via, status) ==
    run' = [run EXCEPT ![p] =
               [IdleRun EXCEPT !.pc = "done", !.path = via, !.status = status,
                               !.args = <<op>>]]

ReviewFrame ==
    /\ UNCHANGED <<calendars, maxActive, maxInFlight, sc, recs, nextRecId,
                   failBudget, writes, lastWrite>>

\* a reviews row
RvRow(id, u, e, r) == [id |-> id, user_id |-> u, event_id |-> e, rating |-> r]

\* events.organizer_id
OrganizerOf == (1 :> 2) @@ (2 :> 1) @@ (3 :> 1) @@ (4 :> 2)

\* exports.createReview: SELECT the event (404 if none)
CrvStart(p) ==
    /\ CanStart(p)
    /\ \E u \in Users, e \in ReviewEventIds, rating \in ReviewRatings \ {0} :
         IF e \notin DOMAIN events
         THEN ReviewDone(p, "create", "ctl_review", "notfound")
         ELSE run' = [run EXCEPT ![p] =
                         [IdleRun EXCEPT !.pc = "check", !.path = "ctl_review",
                                         !.user = u,
                                         !.args = <<"create", e, rating>>]]
    /\ runsLeft' = runsLeft - 1
    /\ ReviewFrame
    /\ UNCHANGED <<reviews, events, siteVars>>

\* SELECT the user's review of the event (400 if any)
CrvCheck(p) ==
    /\ run[p].pc = "check"
    /\ run' = [run EXCEPT ![p] =
                  IF Reviewed(run[p].user, run[p].args[2])
                  THEN [@ EXCEPT !.pc = "done", !.status = "badrequest"]
                  ELSE [@ EXCEPT !.pc = "insert"]]
    /\ ReviewFrame
    /\ UNCHANGED <<reviews, events, siteVars, runsLeft>>

\* INSERT INTO reviews, result.insertId
CrvInsert(p) ==
    /\ run[p].pc = "insert"
    /\ reviews' = reviews \cup
                  {RvRow(nextReviewId, run[p].user, run[p].args[2],
                         run[p].args[3])}
    /\ nextReviewId' = nextReviewId + 1
    /\ run' = [run EXCEPT ![p].pc = "avg", ![p].found = nextReviewId]
    /\ ReviewFrame
    /\ UNCHANGED <<events, notifications, runsLeft, users, nextEventId,
                   connections, authVars, call>>

\* updateEventAverageRating: SELECT AVG(rating), avg_rating || 0
CrvReadAvg(p) ==
    /\ run[p].pc = "avg"
    /\ LET avg == AvgQuery(reviews, run[p].args[2])
       IN run' = [run EXCEPT ![p].pc = "setavg",
                             ![p].data = IF avg = Null THEN 0 ELSE avg]
    /\ ReviewFrame
    /\ UNCHANGED <<reviews, events, siteVars, runsLeft>>

\* updateEventAverageRating: UPDATE events SET avg_rating
CrvWriteAvg(p) ==
    /\ run[p].pc = "setavg"
    /\ events' = SetAvgRating(events, run[p].args[2], run[p].data)
    /\ run' = [run EXCEPT ![p].pc = "notify"]
    /\ ReviewFrame
    /\ UNCHANGED <<reviews, siteVars, runsLeft>>

\* SELECT organizer_id, INSERT INTO notifications, 201
CrvNotify(p) ==
    /\ run[p].pc = "notify"
    /\ notifications' =
           Append(notifications,
                  [user_id |-> OrganizerOf[run[p].args[2]],
                   rating |-> run[p].args[3],
                   related_id |-> run[p].found])
    /\ run' = [run EXCEPT ![p].pc = "done", ![p].status = "ok"]
    /\ ReviewFrame
    /\ UNCHANGED <<reviews, events, nextReviewId, runsLeft, users,
                   nextEventId, connections, authVars, call>>

\* exports.updateReview (the review of user u for event e, by its id)
CtlUpdateReview(p) ==
    /\ CanStart(p)
    /\ \E r \in reviews, u \in Users, rating \in ReviewRatings :
         IF r.user_id # u
         THEN /\ ReviewDone(p, "update", "ctl_review", "forbidden")
              /\ UNCHANGED <<reviews, events>>
         ELSE IF rating = 0
         THEN /\ ReviewDone(p, "update", "ctl_review", "badrequest")
              /\ UNCHANGED <<reviews, events>>
         ELSE /\ reviews' = (reviews \ {r}) \cup {[r EXCEPT !.rating = rating]}
              /\ events' = UpdateEventAverageRating(events, reviews', r.event_id)
              /\ ReviewDone(p, "update", "ctl_review", "ok")
    /\ runsLeft' = runsLeft - 1
    /\ UNCHANGED siteVars
    /\ ReviewFrame

\* exports.deleteReview
CtlDeleteReview(p) ==
    /\ CanStart(p)
    /\ \E r \in reviews, u \in Users :
         IF r.user_id # u
         THEN /\ ReviewDone(p, "delete", "ctl_review", "forbidden")
              /\ UNCHANGED <<reviews, events>>
         ELSE /\ reviews' = reviews \ {r}
              /\ events' = UpdateEventAverageRating(events, reviews', r.event_id)
              /\ ReviewDone(p, "delete", "ctl_review", "ok")
    /\ runsLeft' = runsLeft - 1
    /\ UNCHANGED siteVars
    /\ ReviewFrame

\* Review.create (called for a user and an event without a review yet)
MdlCreateReview(p) ==
    /\ CanStart(p)
    /\ \E u \in Users, e \in DOMAIN events, rating \in ReviewRatings \ {0} :
         /\ ~Reviewed(u, e)
         /\ reviews' = reviews \cup {RvRow(nextReviewId, u, e, rating)}
         /\ events' = EventUpdateRating(events, reviews', e)
         /\ ReviewDone(p, "create", "mdl_review", "ok")
    /\ nextReviewId' = nextReviewId + 1
    /\ runsLeft' = runsLeft - 1
    /\ UNCHANGED <<notifications, users, nextEventId, connections, authVars,
                   call>>
    /\ ReviewFrame

\* Review.update
MdlUpdateReview(p) ==
    /\ CanStart(p)
    /\ \E r \in reviews, rating \in ReviewRatings :
         IF rating = 0
         THEN /\ ReviewDone(p, "update", "mdl_review", "ok")
              /\ UNCHANGED <<reviews, events>>
         ELSE /\ reviews' = (reviews \ {r}) \cup {[r EXCEPT !.rating = rating]}
              /\ events' = EventUpdateRating(events, reviews', r.event_id)
              /\ ReviewDone(p, "update", "mdl_review", "ok")
    /\ runsLeft' = runsLeft - 1
    /\ UNCHANGED siteVars
    /\ ReviewFrame

\* Review.delete
MdlDeleteReview(p) ==
    /\ CanStart(p)
    /\ \E r \in reviews :
         /\ reviews' = reviews \ {r}
         /\ events' = EventUpdateRating(events, reviews', r.event_id)
         /\ ReviewDone(p, "delete", "mdl_review", "ok")
    /\ runsLeft' = runsLeft - 1
    /\ UNCHANGED siteVars
    /\ ReviewFrame

\* ---- the event handlers ----------------------------------------------------
\* a property of the request body: given or not, and its value
NotGiven == [given |-> FALSE, v |-> ""]

Given(v) == [given |-> TRUE, v |-> v]

NoIds == [given |-> FALSE, v |-> <<>>]

\* if (x): given and not the empty string
Truthy(x) == x.given /\ x.v # ""

\* an events row with its event_categories links
EventRow(org, title, descr, status, cats) ==
    [organizer_id |-> org, title |-> title, description |-> descr,
     status |-> status, cats |-> cats]

\* req.user as the authenticate middleware sets it: the selected columns
LoadedUser(u) == [id |-> u, is_admin |-> users[u].is_admin]

\* req.user.isAdmin
IsAdminProperty(reqUser) ==
    IF "isAdmin" \in DOMAIN reqUser THEN reqUser.isAdmin ELSE FALSE

\* events[0].organizer_id !== req.user.id && !req.user.isAdmin
NotAuthorized(row, reqUser) ==
    row.organizer_id # reqUser.id /\ ~IsAdminProperty(reqUser)

TitleInputs == {NotGiven, Given("b")}

DescriptionInputs == {NotGiven, Given("")}

StatusInputs == {NotGiven, Given("cancelled"), Given("bogus")}

CategoryInputs == {NoIds, Given(<<>>), Given(<<2>>)}

UpdateBodies ==
    [title : TitleInputs, description : DescriptionInputs,
     status : StatusInputs \ {Given("bogus")}, categoryIds : CategoryInputs]

CreateBodies ==
    [title : {Given("b")}, description : {Given("d")}, status : {NotGiven},
     categoryIds : CategoryInputs]

EventIds == {1, 2, 9}

ValidStatuses == {"upcoming", "ongoing", "completed", "cancelled"}

\* updateEvent: the SET list built from the body
CtlHasFields(body) ==
    Truthy(body.title) \/ body.description.given \/ Truthy(body.status)

CtlEventFields(row, body) ==
    [row EXCEPT
        !.title = IF Truthy(body.title) THEN body.title.v ELSE @,
        !.description = IF body.description.given THEN body.description.v
                        ELSE @,
        !.status = IF Truthy(body.status) THEN body.status.v ELSE @]

\* Event.update: the SET list built from eventData
MdlHasFields(body) ==
    Truthy(body.title) \/ Truthy(body.description) \/ Truthy(body.status)

MdlEventFields(row, body) ==
    [row EXCEPT
        !.title = IF Truthy(body.title) THEN body.title.v ELSE @,
        !.description = IF Truthy(body.description) THEN body.description.v
                        ELSE @,
        !.status = IF Truthy(body.status) THEN body.status.v ELSE @]

SetCats(evs, id, cats) == [evs EXCEPT ![id].cats = cats]

EventDone(p, op, u, id, body, status) ==
    run' = [run EXCEPT ![p] =
               [IdleRun EXCEPT !.pc = "done", !.path = "ctl_event",
                               !.status = status, !.user = u,
                               !.args = <<op, id, body>>, !.saved = events]]

EventFrame ==
    UNCHANGED <<reviews, calendars, recs, nextRecId, maxActive, maxInFlight,
                writes, lastWrite, sc, notifications, nextReviewId, users,
                authVars, call>>

\* exports.createEvent: getConnection, beginTransaction
CevStart(p) ==
    /\ CanStart(p)
    /\ \E u \in DOMAIN users, body \in CreateBodies :
         run' = [run EXCEPT ![p] =
                    [IdleRun EXCEPT !.pc = "cev_insert", !.path = "ctl_event",
                                    !.user = u, !.args = <<"create", 0, body>>,
                                    !.saved = events, !.data = events]]
    /\ connections' = connections + 1
    /\ runsLeft' = runsLeft - 1
    /\ EventFrame
    /\ UNCHANGED <<events, failBudget, nextEventId>>

\* INSERT INTO events on the connection, eventResult.insertId
CevInsert(p) ==
    /\ run[p].pc = "cev_insert"
    /\ LET body == run[p].args[3]
       IN run' = [run EXCEPT
                     ![p].data = SetKey(@, nextEventId,
                                        EventRow(run[p].user, body.title.v,
                                                 body.description.v,
                                                 "upcoming", <<>>)),
                     ![p].found = nextEventId,
                     ![p].pc = IF body.categoryIds.given
                                  /\ body.categoryIds.v # <<>>
                               THEN "cev_links" ELSE "commit"]
    /\ nextEventId' = nextEventId + 1
    /\ EventFrame
    /\ UNCHANGED <<events, failBudget, runsLeft, connections>>

\* INSERT INTO event_categories on the connection
CevLinks(p) ==
    /\ run[p].pc = "cev_links"
    /\ run' = [run EXCEPT
                  ![p].data = SetCats(@, run[p].found,
                                      run[p].args[3].categoryIds.v),
                  ![p].pc = "commit"]
    /\ EventFrame
    /\ UNCHANGED <<events, failBudget, runsLeft, connections, nextEventId>>

\* connection.commit, the success response, finally connection.release
TxCommit(p) ==
    /\ run[p].pc = "commit"
    /\ events' = run[p].data
    /\ connections' = connections - 1
    /\ run' = [run EXCEPT ![p].pc = "done", ![p].status = "ok"]
    /\ EventFrame
    /\ UNCHANGED <<failBudget, runsLeft, nextEventId>>

TxPcs == {"cev_insert", "cev_links", "uev_update", "uev_unlink", "uev_link",
          "commit"}

\* a statement on the connection rejects: rollback, release, rethrow, 500
TxFail(p) ==
    /\ run[p].pc \in TxPcs
    /\ failBudget > 0
    /\ failBudget' = failBudget - 1
    /\ connections' = connections - 1
    /\ run' = [run EXCEPT ![p].pc = "done", ![p].status = "error"]
    /\ EventFrame
    /\ UNCHANGED <<events, runsLeft, nextEventId>>

\* where updateEvent goes after its UPDATE
AfterUpdatePc(body) ==
    IF body.categoryIds.given THEN "uev_unlink" ELSE "commit"

\* exports.updateEvent: SELECT, 404, 403, getConnection, beginTransaction
UevStart(p) ==
    /\ CanStart(p)
    /\ \E u \in DOMAIN users, id \in EventIds, body \in UpdateBodies :
         IF id \notin DOMAIN events
         THEN /\ EventDone(p, "update", u, id, body, "notfound")
              /\ UNCHANGED connections
         ELSE IF NotAuthorized(events[id], LoadedUser(u))
         THEN /\ EventDone(p, "update", u, id, body, "forbidden")
              /\ UNCHANGED connections
         ELSE /\ run' = [run EXCEPT ![p] =
                            [IdleRun EXCEPT
                                !.pc = IF CtlHasFields(body) THEN "uev_update"
                                       ELSE AfterUpdatePc(body),
                                !.path = "ctl_event", !.user = u,
                                !.args = <<"update", id, body>>,
                                !.saved = events, !.data = events]]
              /\ connections' = connections + 1
    /\ runsLeft' = runsLeft - 1
    /\ EventFrame
    /\ UNCHANGED <<events, failBudget, nextEventId>>

\* UPDATE events SET ... on the connection
UevUpdate(p) ==
    /\ run[p].pc = "uev_update"
    /\ LET id == run[p].args[2]
           body == run[p].args[3]
       IN run' = [run EXCEPT
                     ![p].data = [@ EXCEPT ![id] = CtlEventFields(@, body)],
                     ![p].pc = AfterUpdatePc(body)]
    /\ EventFrame
    /\ UNCHANGED <<events, failBudget, runsLeft, connections, nextEventId>>

\* DELETE FROM event_categories on the connection
UevUnlink(p) ==
    /\ run[p].pc = "uev_unlink"
    /\ run' = [run EXCEPT
                  ![p].data = SetCats(@, run[p].args[2], <<>>),
                  ![p].pc = IF run[p].args[3].categoryIds.v # <<>>
                            THEN "uev_link" ELSE "commit"]
    /\ EventFrame
    /\ UNCHANGED <<events, failBudget, runsLeft, connections, nextEventId>>

\* INSERT INTO event_categories on the connection
UevLink(p) ==
    /\ run[p].pc = "uev_link"
    /\ run' = [run EXCEPT
                  ![p].data = SetCats(@, run[p].args[2],
                                      run[p].args[3].categoryIds.v),
                  ![p].pc = "commit"]
    /\ EventFrame
    /\ UNCHANGED <<events, failBudget, runsLeft, connections, nextEventId>>

\* exports.deleteEvent
DeleteEvent(p) ==
    /\ CanStart(p)
    /\ \E u \in DOMAIN users, id \in EventIds :
         IF id \notin DOMAIN events
         THEN /\ EventDone(p, "delete", u, id, NotGiven, "notfound")
              /\ UNCHANGED events
         ELSE IF NotAuthorized(events[id], LoadedUser(u))
         THEN /\ EventDone(p, "delete", u, id, NotGiven, "forbidden")
              /\ UNCHANGED events
         ELSE /\ EventDone(p, "delete", u, id, NotGiven, "ok")
              /\ events' = [e \in DOMAIN events \ {id} |-> events[e]]
    /\ runsLeft' = runsLeft - 1
    /\ EventFrame
    /\ UNCHANGED <<failBudget, nextEventId, connections>>

\* exports.updateEventStatus
UpdateEventStatus(p) ==
    /\ CanStart(p)
    /\ \E u \in DOMAIN users, id \in EventIds, status \in StatusInputs :
         IF ~(status.given /\ status.v \in ValidStatuses)
         THEN /\ EventDone(p, "status", u, id, status, "badrequest")
              /\ UNCHANGED events
         ELSE IF id \notin DOMAIN events
         THEN /\ EventDone(p, "status", u, id, status, "notfound")
              /\ UNCHANGED events
         ELSE IF NotAuthorized(events[id], LoadedUser(u))
         THEN /\ EventDone(p, "status", u, id, status, "forbidden")
              /\ UNCHANGED events
         ELSE /\ EventDone(p, "status", u, id, status, "ok")
              /\ events' = [events EXCEPT ![id].status = status.v]
    /\ runsLeft' = runsLeft - 1
    /\ EventFrame
    /\ UNCHANGED <<failBudget, nextEventId, connections>>

\* where Event.update goes after its UPDATE
AfterMdlUpdatePc(body) ==
    IF body.categoryIds.given /\ body.categoryIds.v # <<>>
    THEN "mev_unlink" ELSE "done"

\* Event.update: the field lists, the early return when they are empty
MevStart(p) ==
    /\ CanStart(p)
    /\ \E id \in DOMAIN events, body \in UpdateBodies :
         run' = [run EXCEPT ![p] =
                    [IdleRun EXCEPT
                        !.pc = IF MdlHasFields(body) THEN "mev_update"
                               ELSE "done",
                        !.status = IF MdlHasFields(body) THEN "none" ELSE "ok",
                        !.path = "mdl_event",
                        !.args = <<"update", id, body>>,
                        !.saved = events]]
    /\ runsLeft' = runsLeft - 1
    /\ EventFrame
    /\ UNCHANGED <<events, failBudget, nextEventId, connections>>

MevNext(p, pc) ==
    run' = [run EXCEPT ![p].pc = pc,
                       ![p].status = IF pc = "done" THEN "ok" ELSE @]

\* Event.update: UPDATE events SET ...
MevUpdate(p) ==
    /\ run[p].pc = "mev_update"
    /\ LET id == run[p].args[2]
           body == run[p].args[3]
       IN /\ events' = [events EXCEPT ![id] = MdlEventFields(@, body)]
          /\ MevNext(p, AfterMdlUpdatePc(body))
    /\ EventFrame
    /\ UNCHANGED <<failBudget, runsLeft, nextEventId, connections>>

\* Event.update: DELETE FROM event_categories
MevUnlink(p) ==
    /\ run[p].pc = "mev_unlink"
    /\ events' = SetCats(events, run[p].args[2], <<>>)
    /\ MevNext(p, "mev_link")
    /\ EventFrame
    /\ UNCHANGED <<failBudget, runsLeft, nextEventId, connections>>

\* Event.update: INSERT INTO event_categories
MevLink(p) ==
    /\ run[p].pc = "mev_link"
    /\ events' = SetCats(events, run[p].args[2], run[p].args[3].categoryIds.v)
    /\ MevNext(p, "done")
    /\ EventFrame
    /\ UNCHANGED <<failBudget, runsLeft, nextEventId, connections>>

\* a statement of Event.update rejects: the error propagates to the caller
MevFail(p) ==
    /\ run[p].pc \in {"mev_update", "mev_unlink", "mev_link"}
    /\ failBudget > 0
    /\ failBudget' = failBudget - 1
    /\ run' = [run EXCEPT ![p].pc = "done", ![p].status = "error"]
    /\ EventFrame
    /\ UNCHANGED <<events, runsLeft, nextEventId, connections>>

\* ---- password reset ---------------------------------------------------------
\* expiresIn: '1h' and INTERVAL 1 HOUR, in seconds
ResetLifetime == 3600

\* jwt.sign(payload, secret, {expiresIn}): the payload with iat and exp; the
\* signature is a function of the payload
SignedToken(id, purpose, iat, lifetime) ==
    [id |-> id, purpose |-> purpose, iat |-> iat, exp |-> iat + lifetime]

\* a string that is no token signed with the secret
GarbageToken == SignedToken(0, "garbage", 0, 0)

\* reset_token = NULL
NullToken == SignedToken(0, "null", 0, 0)

\* the token login signs, without purpose
LoginToken(u) == SignedToken(u, "undefined", 0, 24 * ResetLifetime)

\* jwt.verify throws: bad signature or exp reached
VerifyThrows(token, t) == token.purpose = "garbage" \/ t >= token.exp

\* bcrypt.hash(newPassword, salt) as bcrypt.compare sees it
Hashed(password) == [bcrypt |-> password]

UserRow(email, password, token, expires) ==
    [email |-> email, password |-> Hashed(password), reset_token |-> token,
     reset_token_expires |-> expires, is_admin |-> FALSE]

Emails == {"a@x", "b@x", "c@x"}

NewPasswords == {"p1", "p2"}

ClockValues == {0, 1, ResetLifetime, ResetLifetime + 1}

ForgotMessage == "If your email is registered, you will receive a password reset link"

AuthFrame ==
    UNCHANGED <<events, reviews, calendars, recs, nextRecId, failBudget,
                maxActive, maxInFlight, writes, lastWrite, sc, notifications,
                nextReviewId, nextEventId, connections, call>>

AuthDone(p, op, input, status, body) ==
    run' = [run EXCEPT ![p] =
               [IdleRun EXCEPT !.pc = "done", !.path = "auth", !.status = status,
                               !.args = <<op, input>>, !.data = body]]

\* time passes
Tick ==
    /\ \E t \in ClockValues : t > now /\ now' = t
    /\ AuthFrame
    /\ UNCHANGED <<users, run, runsLeft, issuedTokens, spentTokens>>

\* forgotPassword
ForgotPassword(p) ==
    /\ CanStart(p)
    /\ \E email \in Emails :
         LET found == {u \in DOMAIN users : users[u].email = email}
         IN IF found = {}
            THEN /\ AuthDone(p, "forgot", email, 200,
                             [message |-> ForgotMessage])
                 /\ UNCHANGED <<users, issuedTokens>>
            ELSE LET u == CHOOSE x \in found : TRUE
                     resetToken == SignedToken(u, "password-reset", now,
                                               ResetLifetime)
                 IN /\ users' = [users EXCEPT
                                    ![u].reset_token = resetToken,
                                    ![u].reset_token_expires =
                                        now + ResetLifetime]
                    /\ issuedTokens' = Append(issuedTokens, resetToken)
                    /\ AuthDone(p, "forgot", email, 200,
                                [message |-> ForgotMessage,
                                 resetToken |-> resetToken])
    /\ runsLeft' = runsLeft - 1
    /\ AuthFrame
    /\ UNCHANGED <<now, spentTokens>>

\* the users row the token may reset
ResetRows(token) ==
    {u \in DOMAIN users :
        /\ u = token.id
        /\ users[u].reset_token = token
        /\ users[u].reset_token_expires > now}

\* resetPassword
ResetPassword(p) ==
    /\ CanStart(p)
    /\ \E token \in Range(issuedTokens) \cup {GarbageToken, LoginToken(1)},
          newPassword \in NewPasswords :
         IF VerifyThrows(token, now)
         THEN /\ AuthDone(p, "reset", token, 400,
                          [message |-> "Invalid or expired token"])
              /\ UNCHANGED <<users, spentTokens>>
         ELSE IF token.purpose # "password-reset"
         THEN /\ AuthDone(p, "reset", token, 400,
                          [message |-> "Invalid token"])
              /\ UNCHANGED <<users, spentTokens>>
         ELSE IF ResetRows(token) = {}
         THEN /\ AuthDone(p, "reset", token, 400,
                          [message |-> "Invalid or expired token"])
              /\ UNCHANGED <<users, spentTokens>>
         ELSE /\ users' = [users EXCEPT
                              ![token.id].password = Hashed(newPassword),
                              ![token.id].reset_token = NullToken,
                              ![token.id].reset_token_expires = 0]
              /\ spentTokens' = spentTokens \cup {token}
              /\ AuthDone(p, "reset", token, 200,
                          [message |-> "Password has been reset successfully"])
    /\ runsLeft' = runsLeft - 1
    /\ AuthFrame
    /\ UNCHANGED <<now, issuedTokens>>

\* ---- the listing query builders -------------------------------------------
\* a query is the sequence of the string pieces the handler appends, its
\* ORDER BY field and its ORDER BY direction (a sequence of characters)
\* no call made yet
CallIdle == [fn |-> "none"]

CategoryJoin == " JOIN event_categories ec ON e.id = ec.event_id"

CategoryCondition == "ec.category_id = ?"

StatusCondition == "e.status = ?"

OrganizerCondition == "e.organizer_id = ?"

SearchCondition == "(e.title LIKE ? OR e.description LIKE ? OR e.location LIKE ?)"

LimitOffset == " LIMIT ? OFFSET ?"

\* the number of '?' in a piece
Marks(piece) ==
    IF piece \in {CategoryCondition, StatusCondition, OrganizerCondition,
                  " AND e.status = ?", " WHERE ec.category_id = ?"} THEN 1
    ELSE IF piece = SearchCondition THEN 3
    ELSE IF piece = LimitOffset THEN 2
    ELSE 0

\* whereConditions.join(' AND ')
JoinAnd(conds) ==
    Flatten([i \in 1..Len(conds) |->
                IF i = 1 THEN <<conds[i]>> ELSE <<" AND ", conds[i]>>])

Param(src, v, n) == [src |-> src, v |-> v, n |-> n]

LowerOf == ("A" :> "a") @@ ("S" :> "s") @@ ("C" :> "c") @@ ("D" :> "d") @@
           ("E" :> "e")

\* String.prototype.toLowerCase
ToLowerCase(str) ==
    [i \in 1..Len(str) |->
        IF str[i] \in DOMAIN LowerOf THEN LowerOf[str[i]] ELSE str[i]]

validSortFields == {"date", "title", "avg_rating", "created_at"}

validSortDirs == {<<"a", "s", "c">>, <<"d", "e", "s", "c">>}

\* Number(string) of a query value, then the arithmetic of the offset
QueryNumber(str, default) ==
    IF str = Absent THEN default
    ELSE IF \A i \in 1..Len(str) : str[i] \in DOMAIN DigitValue
         THEN (IF str = <<>> THEN 0 ELSE ParseInt(str))
         ELSE NaN

\* (page - 1) * limit
OffsetOf(page, limit) ==
    IF QueryNumber(page, 1) = NaN \/ QueryNumber(limit, 10) = NaN THEN NaN
    ELSE (QueryNumber(page, 1) - 1) * QueryNumber(limit, 10)

\* parseInt(limit) with the default applied
LimitOf(limit) == IF limit = Absent THEN 10 ELSE ParseInt(limit)

FilterInputs == {NotGiven, Given(""), Given("1")}

SortByInputs == {"undefined", "title", "e.id; --"}

SortDirInputs == {Absent, <<"d", "e", "s", "c">>, <<"D", "E", "S", "C">>,
                  <<"A", "s", "c">>, <<"x">>}

PageInputs == {Absent, <<"2">>}

LimitInputs == {Absent, <<"3">>, <<"a">>}

\* exports.getAllEvents up to the two db.query calls
BuildAllEvents(category, status, organizer, search, sortBy, sortDir, page, limit) ==
    LET joins == IF Truthy(category) THEN <<CategoryJoin>> ELSE <<>>
        whereConditions ==
            (IF Truthy(category) THEN <<CategoryCondition>> ELSE <<>>) \o
            (IF Truthy(status) THEN <<StatusCondition>> ELSE <<>>) \o
            (IF Truthy(organizer) THEN <<OrganizerCondition>> ELSE <<>>) \o
            (IF Truthy(search) THEN <<SearchCondition>> ELSE <<>>)
        filterParams ==
            (IF Truthy(category) THEN <<Param("category", <<category.v>>, 0)>>
             ELSE <<>>) \o
            (IF Truthy(status) THEN <<Param("status", <<status.v>>, 0)>>
             ELSE <<>>) \o
            (IF Truthy(organizer) THEN <<Param("organizer", <<organizer.v>>, 0)>>
             ELSE <<>>) \o
            (IF Truthy(search)
             THEN [i \in 1..3 |-> Param("search", <<"%", search.v, "%">>, 0)]
             ELSE <<>>)
        whereClause == IF whereConditions # <<>>
                       THEN <<" WHERE ">> \o JoinAnd(whereConditions)
                       ELSE <<>>
        by == IF sortBy = "undefined" THEN "date" ELSE sortBy
        dir == IF sortDir = Absent THEN <<"a", "s", "c">> ELSE sortDir
        sortField == IF by \in validSortFields THEN by ELSE "date"
        sortDirection == IF ToLowerCase(dir) \in validSortDirs THEN dir
                         ELSE <<"a", "s", "c">>
        params == filterParams \o
                  <<Param("limit", <<>>, LimitOf(limit)),
                    Param("offset", <<>>, OffsetOf(page, limit))>>
    IN [fn |-> "getAllEvents",
        query |-> <<"SELECT e.*, u.username as organizer_name FROM events e JOIN users u ON e.organizer_id = u.id">>
                  \o joins \o whereClause
                  \o <<" GROUP BY e.id", " ORDER BY ", LimitOffset>>,
        orderField |-> sortField,
        orderDir |-> sortDirection,
        countQuery |-> <<"SELECT COUNT(*) as total FROM events e">>
                       \o joins \o whereClause,
        params |-> params,
        countParams |-> SubSeq(params, 1, Len(params) - 2)]

\* exports.getCategoryEvents from the category check to the two db.query calls
BuildCategoryEvents(id, status, page, limit) ==
    LET statusPiece == IF Truthy(status) THEN <<" AND e.status = ?">> ELSE <<>>
        queryParams ==
            <<Param("category", <<id>>, 0)>> \o
            (IF Truthy(status) THEN <<Param("status", <<status.v>>, 0)>>
             ELSE <<>>) \o
            <<Param("limit", <<>>, LimitOf(limit)),
              Param("offset", <<>>, OffsetOf(page, limit))>>
    IN [fn |-> "getCategoryEvents",
        query |-> <<"SELECT e.*, u.username as organizer_name FROM events e JOIN event_categories ec ON e.id = ec.event_id JOIN users u ON e.organizer_id = u.id",
                    " WHERE ec.category_id = ?">>
                  \o statusPiece \o <<" ORDER BY ", LimitOffset>>,
        orderField |-> "date",
        orderDir |-> <<"D", "E", "S", "C">>,
        countQuery |-> <<"SELECT COUNT(*) as total FROM events e JOIN event_categories ec ON e.id = ec.event_id",
                         " WHERE ec.category_id = ?">> \o statusPiece,
        params |-> queryParams,
        countParams |-> SubSeq(queryParams, 1,
                               IF Truthy(status) THEN 2 ELSE 1)]

CallFrame ==
    UNCHANGED <<events, reviews, calendars, recs, nextRecId, failBudget,
                runsLeft, maxActive, maxInFlight, run, writes, lastWrite, sc,
                notifications, nextReviewId, users, nextEventId, connections,
                authVars>>

GetAllEvents ==
    /\ call = CallIdle
    /\ \E category \in FilterInputs, status \in FilterInputs,
          organizer \in FilterInputs, search \in FilterInputs,
          sortBy \in SortByInputs, sortDir \in SortDirInputs,
          page \in PageInputs, limit \in LimitInputs :
         call' = BuildAllEvents(category, status, organizer, search, sortBy,
                                sortDir, page, limit)
    /\ CallFrame

GetCategoryEvents ==
    /\ call = CallIdle
    /\ \E id \in {"1", "2"}, status \in FilterInputs, page \in PageInputs,
          limit \in LimitInputs :
         call' = BuildCategoryEvents(id, status, page, limit)
    /\ CallFrame

\* ---- helpers: paginate -----------------------------------------------------
\* Array.prototype.slice(start, end) for whole numbers that are not negative
Slice(array, startIndex, endIndex) ==
    SubSeq(array, Min2(startIndex, Len(array)) + 1, Min2(endIndex, Len(array)))

\* Math.ceil(a / b) for a >= 0, b >= 1
CeilDiv(a, b) == (a + b - 1) \div b

\* an optional property of the result
NoLink == [given |-> FALSE, page |-> 0, limit |-> 0]

Link(page, limit) == [given |-> TRUE, page |-> page, limit |-> limit]

\* paginate with the next link also given on the last full page
PaginateEager(array, page, limit) ==
    LET startIndex == (page - 1) * limit
        endIndex == page * limit
    IN [next |-> IF endIndex <= Len(array) THEN Link(page + 1, limit)
                 ELSE NoLink,
        previous |-> IF startIndex > 0 THEN Link(page - 1, limit) ELSE NoLink,
        totalPages |-> CeilDiv(Len(array), limit),
        currentPage |-> page,
        totalItems |-> Len(array),
        results |-> Slice(array, startIndex, endIndex)]

\* paginate(array, page, limit)
Paginate(array, page, limit) ==
    LET startIndex == (page - 1) * limit
        endIndex == page * limit
    IN [next |-> IF endIndex < Len(array) THEN Link(page + 1, limit)
                 ELSE NoLink,
        previous |-> IF startIndex > 0 THEN Link(page - 1, limit) ELSE NoLink,
        totalPages |-> CeilDiv(Len(array), limit),
        currentPage |-> page,
        totalItems |-> Len(array),
        results |-> Slice(array, startIndex, endIndex)]

Arrays == UNION {[1..n -> {"a", "b"}] : n \in 0..MaxLen}

\* a caller asks for one page, then walks pages 1..totalPages
CallPaginate ==
    /\ call = CallIdle
    /\ \E array \in Arrays, page \in 1..MaxPage, limit \in 1..MaxLimit :
         call' = [fn |-> "paginate", array |-> array, page |-> page,
                  limit |-> limit,
                  result |-> Paginate(array, page, limit),
                  pages |-> [k \in 1..Paginate(array, page, limit).totalPages
                                |-> Paginate(array, k, limit)]]
    /\ CallFrame

\* ---- middleware: authenticate ---------------------------------------------
\* the Authorization header: absent, or its parts around the first space
NoHeader == <<>>

\* a login token of user 3, whose users row is gone
DeletedUserToken == SignedToken(3, "undefined", 0, 24 * ResetLifetime)

\* a login token signed a day before second 0
ExpiredToken == SignedToken(1, "undefined", 0 - 24 * ResetLifetime,
                            24 * ResetLifetime)

Headers ==
    {NoHeader} \cup
    {<<scheme, token>> :
        scheme \in {"Bearer", "Basic"},
        token \in {LoginToken(1), LoginToken(2), DeletedUserToken,
                   ExpiredToken, GarbageToken,
                   SignedToken(2, "password-reset", 0, ResetLifetime)}}

\* SELECT id, username, email, is_admin FROM users with no WHERE clause
SelectAnyUser(id) == DOMAIN users

\* SELECT id, username, email, is_admin FROM users WHERE id = ?
SelectUserById(id) == {u \in DOMAIN users : u = id}

\* res.status(code) ends the request; next() hands it to the handler
Answer(p, header, status, reqUser) ==
    run' = [run EXCEPT ![p] =
               [IdleRun EXCEPT !.pc = "done", !.path = "authenticate",
                               !.status = status, !.data = reqUser,
                               !.args = <<"authenticate", header, now>>]]

\* exports.authenticate
Authenticate(p) ==
    /\ CanStart(p)
    /\ \E header \in Headers, rejects \in BOOLEAN :
         IF header = NoHeader \/ header[1] # "Bearer"
         THEN /\ Answer(p, header, "401", <<>>)
              /\ UNCHANGED failBudget
         ELSE IF VerifyThrows(header[2], now)
         THEN /\ Answer(p, header, "401", <<>>)
              /\ UNCHANGED failBudget
         ELSE IF rejects /\ failBudget > 0
         THEN /\ Answer(p, header, "500", <<>>)
              /\ failBudget' = failBudget - 1
         ELSE IF SelectUserById(header[2].id) = {}
         THEN /\ Answer(p, header, "401", <<>>)
              /\ UNCHANGED failBudget
         ELSE /\ Answer(p, header, "next",
                        LoadedUser(CHOOSE u \in SelectUserById(header[2].id) :
                                       TRUE))
              /\ UNCHANGED failBudget
    /\ runsLeft' = runsLeft - 1
    /\ UNCHANGED <<events, reviews, calendars, recs, nextRecId, maxActive,
                   maxInFlight, writes, lastWrite, sc, siteVars>>

\* ------------------------------------------------------------------------
\* Specifications
\* ------------------------------------------------------------------------
\* the tables outside the recommendation feature, empty
AuthIdle ==
    /\ now = 0
    /\ issuedTokens = <<>>
    /\ spentTokens = {}
    /\ call = CallIdle

UsersIdle ==
    /\ users = [u \in Users |-> [is_admin |-> FALSE]]
    /\ nextEventId = 1
    /\ connections = 0
    /\ AuthIdle

SiteIdle ==
    /\ notifications = <<>>
    /\ nextReviewId = 1
    /\ UsersIdle

InitWith(catalog, revs, cals, rows, active, inflight, nruns) ==
    /\ reviews = revs
    /\ calendars = cals
    /\ events = EventsTable(catalog, revs)
    /\ recs = rows
    /\ nextRecId = Len(rows) + 1
    /\ failBudget = MaxFailures
    /\ runsLeft = nruns
    /\ maxActive = active
    /\ maxInFlight = inflight
    /\ run = [p \in Procs |-> IdleRun]
    /\ writes = {WriteRec(rows[i]) : i \in DOMAIN rows}
    /\ lastWrite = [k \in {<<rows[i].user_id, rows[i].event_id>> :
                              i \in DOMAIN rows} |->
                       WriteRec(CHOOSE r \in Range(rows) :
                                    <<r.user_id, r.event_id>> = k)]

\* concurrent requests over a small catalogue
Init ==
    /\ \E sn \in Scenarios :
          InitWith(SmallCatalog, sn.revs, sn.cals, <<>>, 2, MaxInFlight, MaxRuns)
    /\ sc = ScIdle
    /\ SiteIdle

Next ==
    \E p \in Procs :
        \/ CtlGenerate(p)
        \/ \E i \in 1..(TopN + 3) : CtlSelect(p, i)
        \/ \E i \in 1..(TopN + 3) : CtlUpdate(p, i)
        \/ \E i \in 1..(TopN + 3) : CtlInsert(p, i)
        \/ \E i \in 1..(TopN + 3) : CtlWriteFail(p, i)
        \/ CtlRespond(p)
        \/ MdlGenerate(p)
        \/ MdlSelect(p)
        \/ MdlUpdate(p)
        \/ MdlInsert(p)
        \/ MdlWriteFail(p)
        \/ MdlFind(p)

Spec == Init /\ [][Next]_vars

\* one request over a catalogue with more than TopN candidates; the store
\* holds a row that an earlier controller run wrote for user 1 and event 1
EarlierRow ==
    [id |-> 1, user_id |-> 1, event_id |-> 1, score |-> ONE \div 2,
     reason |-> "might"]

InitTrunc ==
    /\ InitWith(BigCatalog, BigReviews, {}, <<EarlierRow>>, 1, 1, 1)
    /\ sc = ScIdle
    /\ SiteIdle

SpecTrunc == InitTrunc /\ [][Next]_vars

\* ---- the upsert alone, call after call ------------------------------------
UpsertInputs ==
    [user_id : Users, event_id : {1, 2}, score : {ONE \div 2, ONE},
     reason : {"might"}]
    \cup [user_id : {1}, event_id : {1}, score : {ONE}, reason : {"highly"}]

\* one call of Recommendation.createOrUpdate(data), or one run of the
\* controller's per-row callback for data
CallUpsert(p) ==
    /\ CanStart(p)
    /\ \E data \in UpsertInputs, via \in {"ctl", "mdl"} :
         run' = [run EXCEPT ![p] =
                    [IdleRun EXCEPT !.user = data.user_id, !.path = via,
                                    !.list = <<data>>, !.st = <<"todo">>,
                                    !.idx = 1,
                                    !.pc = IF via = "ctl" THEN "persist"
                                           ELSE "m_select"]]
    /\ runsLeft' = runsLeft - 1
    /\ UNCHANGED <<dbVars, recs, nextRecId, failBudget, writes, lastWrite>>

NextUpsert ==
    \E p \in Procs :
        \/ CallUpsert(p)
        \/ CtlSelect(p, 1)
        \/ CtlUpdate(p, 1)
        \/ CtlInsert(p, 1)
        \/ CtlWriteFail(p, 1)
        \/ CtlRespond(p)
        \/ MdlSelect(p)
        \/ MdlUpdate(p)
        \/ MdlInsert(p)
        \/ MdlWriteFail(p)
        \/ MdlFind(p)

\* the store holds the row of a pair that none of the calls is about
OtherPairRow ==
    [id |-> 1, user_id |-> 2, event_id |-> 3, score |-> ONE,
     reason |-> "highly"]

InitUpsert ==
    /\ InitWith(SmallCatalog, {}, {}, <<OtherPairRow>>, 1, MaxInFlight, MaxRuns)
    /\ sc = ScIdle
    /\ SiteIdle

SpecUpsert == InitUpsert /\ [][NextUpsert]_vars

\* the scorer called on its own, on each of the input lists
InitScore ==
    /\ InitWith(SmallCatalog, {}, {}, <<>>, 1, MaxInFlight, 0)
    /\ \E key \in BOOLEAN, rl \in ReviewListInputs, el \in EventListInputs :
          sc = [ScIdle EXCEPT !.pc = "call", !.apiKey = key, !.reviews = rl,
                              !.events = el]
    /\ SiteIdle

SpecScore == InitScore /\ [][AiGenerate]_vars

\* getPopularEvents over stores of reviews and calendar entries
PopularReviews == {Rv(1, 1, 1), Rv(2, 1, 1), Rv(1, 2, 2), Rv(1, 4, 5)}

PopularCalendars == {Cal(1, 1), Cal(1, 2), Cal(2, 2), Cal(2, 3)}

InitPopular ==
    /\ \E revs \in SUBSET PopularReviews, cals \in SUBSET PopularCalendars :
          InitWith(SmallCatalog, revs, cals, <<>>, 1, 1, 1)
    /\ sc = ScIdle
    /\ SiteIdle

NextPopular == \E p \in Procs : GetPopularEvents(p)

SpecPopular == InitPopular /\ [][NextPopular]_vars

\* stored recommendations: of two users, one of them for a past event (4),
\* two of them with the same score
StoredPool ==
    <<[id |-> 1, user_id |-> 1, event_id |-> 1, score |-> (ONE * 9) \div 10,
       reason |-> "highly"],
      [id |-> 2, user_id |-> 1, event_id |-> 2, score |-> ONE \div 2,
       reason |-> "might"],
      [id |-> 3, user_id |-> 1, event_id |-> 4, score |-> ONE,
       reason |-> "highly"],
      [id |-> 4, user_id |-> 2, event_id |-> 1, score |-> (ONE * 7) \div 10,
       reason |-> "similar"],
      [id |-> 5, user_id |-> 1, event_id |-> 3, score |-> ONE \div 2,
       reason |-> "might"]>>

StoredTables ==
    {SelectSeq(StoredPool, LAMBDA r : r.id \in S) : S \in SUBSET (1..5)}

InitTop ==
    /\ \E rows \in StoredTables :
          InitWith(SmallCatalog, {}, {}, rows, 1, 1, 1)
    /\ sc = ScIdle
    /\ SiteIdle

NextTop == \E p \in Procs : GetTopRecommendations(p)

SpecTop == InitTop /\ [][NextTop]_vars

\* concurrent deleteRecommendation requests over stores of recommendations
InitDelete ==
    /\ \E rows \in StoredTables :
          InitWith(SmallCatalog, {}, {}, rows, 2, MaxInFlight, MaxRuns)
    /\ sc = ScIdle
    /\ SiteIdle

NextDelete == \E p \in Procs : DelSelect(p) \/ DelDelete(p) \/ DelFail(p)

SpecDelete == InitDelete /\ [][NextDelete]_vars

\* review operations one after the other
StoredReviews == {RvRow(1, 1, 1, 5), RvRow(2, 2, 1, 2), RvRow(3, 1, 2, 3)}

InitReview ==
    /\ \E revs \in SUBSET StoredReviews :
          InitWith(SmallCatalog, revs, {}, <<>>, 1, MaxInFlight, MaxRuns)
    /\ sc = ScIdle
    /\ notifications = <<>>
    /\ nextReviewId = Cardinality(StoredReviews) + 1
    /\ UsersIdle

NextReview ==
    \E p \in Procs :
        \/ CrvStart(p)
        \/ CrvCheck(p)
        \/ CrvInsert(p)
        \/ CrvReadAvg(p)
        \/ CrvWriteAvg(p)
        \/ CrvNotify(p)
        \/ CtlUpdateReview(p)
        \/ CtlDeleteReview(p)
        \/ MdlCreateReview(p)
        \/ MdlUpdateReview(p)
        \/ MdlDeleteReview(p)

SpecReview == InitReview /\ [][NextReview]_vars

\* createReview requests, two at a time
InitCreateRace ==
    /\ \E revs \in SUBSET StoredReviews :
          InitWith(SmallCatalog, revs, {}, <<>>, 2, MaxInFlight, MaxRuns)
    /\ sc = ScIdle
    /\ notifications = <<>>
    /\ nextReviewId = Cardinality(StoredReviews) + 1
    /\ UsersIdle

NextCreateRace ==
    \E p \in Procs :
        \/ CrvStart(p)
        \/ CrvCheck(p)
        \/ CrvInsert(p)
        \/ CrvReadAvg(p)
        \/ CrvWriteAvg(p)
        \/ CrvNotify(p)

SpecCreateRace == InitCreateRace /\ [][NextCreateRace]_vars

\* event writes, one request after the other
StoredEvents ==
    (1 :> EventRow(1, "a", "x", "upcoming", <<1>>)) @@
    (2 :> EventRow(2, "a", "x", "upcoming", <<1, 2>>))

InitEvent ==
    /\ events = StoredEvents
    /\ users \in {[u \in Users |-> [is_admin |-> u \in A]] : A \in {{}, {2}}}
    /\ nextEventId = 3
    /\ connections = 0
    /\ reviews = {}
    /\ calendars = {}
    /\ recs = <<>>
    /\ nextRecId = 1
    /\ failBudget = MaxFailures
    /\ runsLeft = MaxRuns
    /\ maxActive = 1
    /\ maxInFlight = MaxInFlight
    /\ run = [p \in Procs |-> IdleRun]
    /\ writes = {}
    /\ lastWrite = EmptyFn
    /\ sc = ScIdle
    /\ notifications = <<>>
    /\ nextReviewId = 1
    /\ AuthIdle

NextEvent ==
    \E p \in Procs :
        \/ CevStart(p)
        \/ CevInsert(p)
        \/ CevLinks(p)
        \/ TxCommit(p)
        \/ TxFail(p)
        \/ UevStart(p)
        \/ UevUpdate(p)
        \/ UevUnlink(p)
        \/ UevLink(p)
        \/ DeleteEvent(p)
        \/ UpdateEventStatus(p)
        \/ MevStart(p)
        \/ MevUpdate(p)
        \/ MevUnlink(p)
        \/ MevLink(p)
        \/ MevFail(p)

SpecEvent == InitEvent /\ [][NextEvent]_vars

\* password resets; user 1 may already hold a token asked for at second 0
EarlierToken == SignedToken(1, "password-reset", 0, ResetLifetime)

InitPassword ==
    /\ InitWith(SmallCatalog, {}, {}, <<>>, 1, MaxInFlight, MaxRuns)
    /\ sc = ScIdle
    /\ notifications = <<>>
    /\ nextReviewId = 1
    /\ nextEventId = 1
    /\ connections = 0
    /\ now = 0
    /\ spentTokens = {}
    /\ call = CallIdle
    /\ \/ /\ users = (1 :> UserRow("a@x", "p0", NullToken, 0)) @@
                      (2 :> UserRow("b@x", "p0", NullToken, 0))
          /\ issuedTokens = <<>>
       \/ /\ users = (1 :> UserRow("a@x", "p0", EarlierToken, ResetLifetime))
                      @@ (2 :> UserRow("b@x", "p0", NullToken, 0))
          /\ issuedTokens = <<EarlierToken>>

NextPassword ==
    \/ Tick
    \/ \E p \in Procs : ForgotPassword(p) \/ ResetPassword(p)

SpecPassword == InitPassword /\ [][NextPassword]_vars

\* the listing handlers, called with every combination of query values
InitQuery ==
    /\ InitWith(SmallCatalog, {}, {}, <<>>, 1, MaxInFlight, MaxRuns)
    /\ sc = ScIdle
    /\ SiteIdle

NextQuery == GetAllEvents \/ GetCategoryEvents

SpecQuery == InitQuery /\ [][NextQuery]_vars

\* requests through the authenticate middleware while time passes
InitAuth ==
    /\ InitWith(SmallCatalog, {}, {}, <<>>, 1, MaxInFlight, MaxRuns)
    /\ sc = ScIdle
    /\ notifications = <<>>
    /\ nextReviewId = 1
    /\ nextEventId = 1
    /\ connections = 0
    /\ AuthIdle
    /\ users \in {[u \in Users |-> UserRow("a@x", "p0", NullToken, 0)],
                  [u \in Users |->
                      [UserRow("a@x", "p0", NullToken, 0)
                          EXCEPT !.is_admin = (u = 2)]]}

NextAuth == Tick \/ \E p \in Procs : Authenticate(p)

SpecAuth == InitAuth /\ [][NextAuth]_vars

\* paginate, called with every small array, page and limit
SpecPaginate == InitQuery /\ [][CallPaginate]_vars

\* ------------------------------------------------------------------------
\* Properties
\* ------------------------------------------------------------------------
InUnit(x) == 0 <= x /\ x <= ONE

EventIdsOf(s) == {s[i].event_id : i \in DOMAIN s}

PosIn(s, x) == CHOOSE i \in DOMAIN s : s[i] = x

AllDone == \A p \in Procs : run[p].pc = "done"

AllIdle == \A p \in Procs : ~Active(p)

\* the thresholds as the specification words them
ClaimReason(score) ==
    IF score * 10 > ONE * 8 THEN "highly"
    ELSE IF score * 10 > ONE * 6 THEN "similar"
    ELSE IF score * 10 > ONE * 4 THEN "might"
    ELSE "different"

\* the profile as the specification folds it: reviews by rating, calendar
\* entries by 3, per category
ClaimProfile(u) ==
    LET rr == ReviewRows(u)
        cr == CalendarRows(u)
        cs == {rr[i].category_id : i \in DOMAIN rr}
              \cup {cr[i].category_id : i \in DOMAIN cr}
    IN [c \in cs |->
          LET mineR == SelectSeq(rr, LAMBDA r : r.category_id = c)
              mineC == SelectSeq(cr, LAMBDA r : r.category_id = c)
              count == Len(mineR) + Len(mineC)
              cum == SumSeq([i \in 1..Len(mineR) |-> mineR[i].rating])
                     + 3 * Len(mineC)
          IN [count |-> count, cumulative |-> cum,
              avg |-> (cum * ONE) \div count]]

\* C1: every recommendation row that is stored or returned, whatever path
\* generated it, has a score between 0.0 and 1.0.
ScoresInUnitInterval ==
    /\ \A i \in DOMAIN recs : InUnit(recs[i].score)
    /\ \A p \in Procs : \A i \in DOMAIN run[p].data : InUnit(run[p].data[i].score)

\* C2: a run for user U writes a recommendation for event E only if U has
\* neither reviewed E nor put E in the calendar (the stored reviews and
\* calendar entries do not change while the runs of this specification go on,
\* so they are what the run read).
NeverReviewedNorCalendared ==
    \A p \in Procs : \A e \in run[p].wrote :
        /\ ~Reviewed(run[p].user, e)
        /\ ~InCalendar(run[p].user, e)

\* C3: once two concurrent generation requests of one user have both ended,
\* the store holds at most one row per (user, event), and the row holds a
\* (score, reason) that one of the runs wrote for that pair.
RaceLeavesOneRowPerPair ==
    (AllDone /\ \A p, q \in Procs : run[p].user = run[q].user) =>
        \A u \in Users, e \in DOMAIN events :
            LET rows == SelectByPair(recs, u, e)
            IN /\ Len(rows) <= 1
               /\ \A i \in DOMAIN rows : WriteRec(rows[i]) \in writes

\* C4: after upsert calls made one after the other, every pair that was
\* written has exactly one row, holding the score and reason of the last
\* call for that pair, and no other row exists: a second call for a pair
\* overwrites and leaves the rows of the other pairs as they were.
SequentialUpsertOverwrites ==
    AllIdle =>
        /\ \A k \in DOMAIN lastWrite :
              LET rows == SelectByPair(recs, k[1], k[2])
              IN Len(rows) = 1 /\ WriteRec(rows[1]) = lastWrite[k]
        /\ \A i \in DOMAIN recs :
              <<recs[i].user_id, recs[i].event_id>> \in DOMAIN lastWrite

\* a pair was written twice with different values and has one row; the row
\* of the pair that no call was about is still in the store
SecondUpsertOverwrote ==
    /\ AllIdle
    /\ \E w1, w2 \in writes :
          /\ w1.user_id = w2.user_id /\ w1.event_id = w2.event_id
          /\ w1 # w2
          /\ Len(SelectByPair(recs, w1.user_id, w1.event_id)) = 1
    /\ OtherPairRow \in Range(recs)
    /\ Len(recs) = 2

\* C5: a run that ranked more than TopN candidates and ended without a failed
\* write has written exactly the TopN highest ranked of them and returns
\* exactly those, highest score first.
PersistsExactlyTopN ==
    \A p \in Procs :
        (run[p].pc = "done" /\ run[p].failedAt = {}
         /\ Len(run[p].ranked) > TopN) =>
            LET top == Prefix(run[p].ranked, TopN)
            IN /\ run[p].wrote = EventIdsOf(top)
               /\ [i \in DOMAIN run[p].data |-> run[p].data[i].event_id]
                     = [i \in DOMAIN top |-> top[i].event_id]

\* C7: the reason stored in a row is the one the thresholds give for the
\* score stored in the same row: above 0.8, else above 0.6, else above 0.4,
\* else the lowest bucket, each threshold exclusive.
StoredReasonFollowsScore ==
    \A i \in DOMAIN recs : recs[i].reason = ClaimReason(recs[i].score)

\* C8: the profile a run builds has, for every category of a reviewed or
\* calendared event, the count and the cumulative rating with every calendar
\* entry folded in as one more entry of weight 3 (and their quotient as the
\* average where the path keeps one).
CalendarFoldedIntoProfile ==
    \A p \in Procs :
        LET cp == ClaimProfile(run[p].user)
        IN /\ (run[p].path = "ctl" /\ run[p].ranked # <<>>) =>
                \A c \in DOMAIN cp :
                    /\ c \in DOMAIN run[p].catPrefs
                    /\ run[p].catPrefs[c].count = cp[c].count
                    /\ run[p].catPrefs[c].totalRating = cp[c].cumulative
                    /\ run[p].catPrefs[c].avgRating = cp[c].avg
           /\ (run[p].path = "mdl" /\ run[p].pc # "idle") =>
                \A c \in DOMAIN cp :
                    /\ c \in DOMAIN run[p].catInterest
                    /\ run[p].catInterest[c] = cp[c].cumulative

\* C9: a run in which the write of a row failed still attempts the writes of
\* all its other rows, ends with a successful result, and returns the rows it
\* persisted.
RowFailureIsSkipped ==
    \A p \in Procs :
        (run[p].pc = "done" /\ run[p].failedAt # {}) =>
            /\ run[p].status = "ok"
            /\ run[p].wrote =
                 {run[p].list[i].event_id : i \in DOMAIN run[p].list \ run[p].failedAt}
            /\ run[p].wrote \subseteq EventIdsOf(run[p].data)

\* C10: in the ranked output of a run, two candidates with the same score
\* stand in the order they had in the candidate input list.
RankingIsStable ==
    \A p \in Procs : \A i, j \in DOMAIN run[p].list :
        (i < j /\ run[p].list[i].score = run[p].list[j].score) =>
            PosIn(run[p].cand, run[p].list[i].event_id)
                < PosIn(run[p].cand, run[p].list[j].event_id)

\* the event of the call's input list that a returned entry is about
ScEventOf(id) == sc.events[CHOOSE i \in DOMAIN sc.events : sc.events[i].id = id]

\* the score as the specification's formula gives it: the three weighted
\* components and nothing else, clamped
ClaimScore(event, preferences) ==
    Clamp01((CategoryScore(event, preferences) * 4) \div 10
            + (RatingScore(event, preferences) * 3) \div 10
            + (KeywordScoreNormalized(event, preferences) * 3) \div 10)

\* C6: every score the scorer returns is the clamped sum of the category
\* component times 0.4, the rating component times 0.3 and the normalised
\* keyword component times 0.3; the devoted profile scores event 1 at 0.85
\* and the cold-start profile scores event 2 at 0.15.
ScoreIsWeightedSum ==
    (sc.pc = "returned" /\ ~sc.fallback) =>
        /\ \A i \in DOMAIN sc.out :
              ScEventOf(sc.out[i].eventId).avg_rating >= 0 =>
                  sc.out[i].score =
                      ClaimScore(ScEventOf(sc.out[i].eventId),
                                 AnalyzeUserPreferences(sc.reviews))
        /\ (sc.reviews = DevotedReviews /\ sc.events = <<EventPool[1]>>) =>
              sc.out[1].score = (ONE * 85) \div 100
        /\ (sc.reviews = <<>> /\ sc.events = <<EventPool[2]>>) =>
              sc.out[1].score = (ONE * 15) \div 100

\* C11: two runs for the same user, through the same path, over the same
\* reviews, calendar and candidate list compute the same ranked list: the same
\* events in the same order with the same scores and reasons.
RecomputeIsDeterministic ==
    \A p, q \in Procs :
        (/\ run[p].ranked # <<>> /\ run[q].ranked # <<>>
         /\ run[p].user = run[q].user
         /\ run[p].path = run[q].path
         /\ run[p].cand = run[q].cand)
            => run[p].ranked = run[q].ranked

\* the category component as the specification words it
ClaimCategoryComponent(event, profile) ==
    IF Len(event.cats) = 0 THEN 0
    ELSE
      LET term(c) ==
              IF c \in DOMAIN profile.categories
              THEN ((profile.categories[c].avgRating \div 5)
                        * profile.categories[c].count) \div 10
              ELSE 0
          total == SumSeq([i \in 1..Len(event.cats) |-> term(event.cats[i])])
      IN (IF total > ONE THEN ONE ELSE total) \div Len(event.cats)

ColdStart(u) ==
    /\ \A r \in reviews : r.user_id # u
    /\ \A c \in calendars : c.user_id # u

\* C13: in a run for a user without reviews (and without calendar entries),
\* of two ranked candidates the one with the strictly lower avg_rating has
\* the strictly higher score and stands first.
ColdStartPrefersLowerRated ==
    \A p \in Procs :
        (run[p].ranked # <<>> /\ ColdStart(run[p].user)) =>
            \A i, j \in DOMAIN run[p].ranked :
                LET a == run[p].ranked[i]
                    b == run[p].ranked[j]
                IN events[a.event_id].avg_rating < events[b.event_id].avg_rating
                      => (a.score > b.score /\ i < j)

\* C14: the profile built from no reviews (the scorer takes no calendar
\* entries) is built without a fault and has an empty per-category map, the
\* overall average rating 0 and empty positive and negative keyword sets.
EmptyReviewsGiveEmptyProfile ==
    (sc.pc = "returned" /\ ~sc.fallback /\ sc.reviews = <<>>) =>
        /\ DOMAIN sc.userPreferences.categories = {}
        /\ sc.userPreferences.avgRating = 0
        /\ sc.userPreferences.positiveKeywords = {}
        /\ sc.userPreferences.negativeKeywords = {}

\* a scored call with no reviews and several events
ProfileOfNoReviewsBuilt ==
    /\ sc.pc = "returned" /\ ~sc.fallback
    /\ sc.reviews = <<>>
    /\ Len(sc.events) > 1
    /\ Len(sc.out) > 1

\* C15: a run that found no candidate ends with a successful result and an
\* empty list, and has written no recommendation row.
EmptyCandidatesGiveEmptyList ==
    \A p \in Procs :
        (run[p].pc = "done" /\ run[p].cand = <<>>) =>
            /\ run[p].status = "ok"
            /\ run[p].data = <<>>
            /\ run[p].saved = <<>>
            /\ run[p].wrote = {}
            /\ run[p].failedAt = {}

\* a controller run found no candidate for a user who has stored rows
EmptyCandidatesRunDone ==
    \E p \in Procs :
        /\ run[p].pc = "done" /\ run[p].path = "ctl" /\ run[p].cand = <<>>
        /\ \E i \in DOMAIN recs : recs[i].user_id = run[p].user

\* C16: every score returned for an event whose avg_rating is null or absent
\* is a number between 0 and 1, the one an avg_rating of 0 gives.
MissingRatingScoresAsZero ==
    (sc.pc = "returned") =>
        \A i \in DOMAIN sc.out :
            LET event == ScEventOf(sc.out[i].eventId)
                asZero == [event EXCEPT !.avg_rating = 0]
            IN event.avg_rating \in {Undefined, Null} =>
                  /\ sc.out[i].score # NaN
                  /\ InUnit(sc.out[i].score)
                  /\ sc.out[i].score =
                        IF sc.fallback THEN 0
                        ELSE CalculateCompatibilityScore(
                                 asZero, AnalyzeUserPreferences(sc.reviews))

\* the popularity score as the specification words it, from the number of
\* the event's calendar entries and the number of its reviews
ClaimPopularity(e) ==
    PopularityKey(events[e].avg_rating,
                  Cardinality({c \in calendars : c.event_id = e}),
                  Cardinality({r \in reviews : r.event_id = e}))

\* C17: getPopularEvents returns at most limit upcoming events (of the asked
\* category, if one is asked), each with the number of its calendar entries
\* and the number of its reviews, in descending order of
\* avg_rating*0.5 + calendar_count*0.3 + review_count*0.2, and omits no event
\* that scores higher than a returned one.
PopularRankedByIndependentCounts ==
    \A p \in Procs :
        (run[p].pc = "done" /\ run[p].path = "popular") =>
            LET out == run[p].data
                ids == {out[i].id : i \in DOMAIN out}
                asked == run[p].args.categoryId
                eligible == {e \in DOMAIN events :
                                /\ events[e].upcoming
                                /\ asked # Null =>
                                      asked \in Range(events[e].cats)}
            IN /\ Len(out) <= run[p].args.limit
               /\ ids \subseteq eligible
               /\ \A i \in DOMAIN out :
                     /\ out[i].calendar_count =
                           Cardinality({c \in calendars : c.event_id = out[i].id})
                     /\ out[i].review_count =
                           Cardinality({r \in reviews : r.event_id = out[i].id})
               /\ \A i, j \in DOMAIN out :
                     i < j => ClaimPopularity(out[i].id) >= ClaimPopularity(out[j].id)
               /\ \A e \in eligible \ ids : \A i \in DOMAIN out :
                     ClaimPopularity(e) <= ClaimPopularity(out[i].id)

\* C18: a successful getTopRecommendations for user U with limit L (5 when
\* none is given) returns at most L rows, all of them stored rows of U, in
\* non-increasing order of score, and omits no stored row of U with an
\* upcoming event whose score is higher than that of a returned row.
TopReturnsBestOfUser ==
    \A p \in Procs :
        (run[p].pc = "done" /\ run[p].path = "top" /\ run[p].status = "ok") =>
            LET out == run[p].data
                given == (<<"1">> :> 1) @@ (<<"2">> :> 2) @@ (<<"1", "0">> :> 10)
                       @@ (<<"undefined">> :> 5)
            IN /\ run[p].args.limit \in DOMAIN given =>
                     Len(out) <= given[run[p].args.limit]
               /\ \A i \in DOMAIN out :
                     out[i] \in Range(recs) /\ out[i].user_id = run[p].user
               /\ \A i, j \in DOMAIN out : i < j => out[i].score >= out[j].score
               /\ \A r \in Range(recs) :
                     (/\ r.user_id = run[p].user
                      /\ events[r.event_id].upcoming
                      /\ r \notin Range(out))
                        => \A i \in DOMAIN out : r.score <= out[i].score

\* a call with limit 2 returned two rows and left out a row of the user with
\* an upcoming event, a row of the user with a past event and a higher score,
\* and a row of the other user
TopCutAtLimit ==
    \E p \in Procs :
        /\ run[p].pc = "done" /\ run[p].path = "top" /\ run[p].status = "ok"
        /\ run[p].args.limit = <<"2">> /\ Len(run[p].data) = 2
        /\ \E r \in Range(recs) \ Range(run[p].data) :
              r.user_id = run[p].user /\ events[r.event_id].upcoming
        /\ \E r \in Range(recs) \ Range(run[p].data) :
              /\ r.user_id = run[p].user /\ ~events[r.event_id].upcoming
              /\ r.score > run[p].data[1].score
        /\ \E r \in Range(recs) : r.user_id # run[p].user

\* a request whose verification finds no row of its user with its id is
\* answered 404 at once and changes no row
RefusedStep ==
    \A p \in Procs :
        (/\ run[p].pc = "idle" /\ run'[p].path = "del"
         /\ \A r \in Range(recs) :
               ~(r.id = run'[p].idx /\ r.user_id = run'[p].user))
            => (run'[p].status = "notfound" /\ run'[p].pc = "done"
                /\ recs' = recs)

\* the store changes only by a request's DELETE of the row with its id, a
\* row of its user; every other row stays
RemovalStep ==
    recs' # recs =>
        \E p \in Procs : \E r \in Range(recs) :
            /\ run[p].pc = "d_delete" /\ run'[p].status = "ok"
            /\ r.id = run[p].idx /\ r.user_id = run[p].user
            /\ recs' = SelectSeq(recs, LAMBDA x : x # r)

\* C19: a deleteRecommendation request whose verification finds no row with
\* the requested id that belongs to the requesting user is answered 404 and
\* changes no stored row; the store changes only by a request's DELETE, which
\* removes the one row with the requested id, a row of the requesting user,
\* and leaves every other row; after a successful request no row has the id.
DeleteOnlyOwnRow ==
    /\ [](\A p \in Procs :
            (run[p].path = "del" /\ run[p].pc = "done" /\ run[p].status = "ok")
               => \A r \in Range(recs) : r.id # run[p].idx)
    /\ [][RefusedStep /\ RemovalStep]_vars

\* one request deleted a row of its user while rows of both users stay, and
\* a request for a stored row of the other user was answered 404
OwnRowDeletedOtherRefused ==
    \E p, q \in Procs :
        /\ run[p].path = "del" /\ run[p].pc = "done" /\ run[p].status = "ok"
        /\ run[p].idx \in {StoredPool[i].id : i \in DOMAIN StoredPool}
        /\ run[q].path = "del" /\ run[q].pc = "done"
        /\ run[q].status = "notfound"
        /\ \E r \in Range(recs) : r.id = run[q].idx /\ r.user_id # run[q].user
        /\ \E r \in Range(recs) : r.user_id = run[p].user

\* the mean rating of the stored reviews of an event, 0 when it has none
ClaimMeanRating(e) ==
    LET mine == {r \in reviews : r.event_id = e}
        total[S \in SUBSET mine] ==
            IF S = {} THEN 0
            ELSE LET r == CHOOSE x \in S : TRUE
                 IN r.rating + total[S \ {r}]
    IN IF mine = {} THEN 0 ELSE (total[mine] * ONE) \div Cardinality(mine)

\* C20: whenever no review operation is under way, the stored avg_rating of
\* every event is the mean rating of the reviews stored for it, and 0 when
\* it has none.
AvgRatingIsMeanOfReviews ==
    AllIdle =>
        \A e \in DOMAIN events : events[e].avg_rating = ClaimMeanRating(e)

\* C21: once two concurrent createReview requests for one event have both
\* completed, the event's avg_rating is the mean of the reviews stored for it.
ConcurrentCreatesLeaveMean ==
    \A p \in Procs, q \in Procs :
        ( /\ run[p].pc = "done" /\ run[p].status = "ok"
          /\ run[q].pc = "done" /\ run[q].status = "ok"
          /\ run[p].user # run[q].user
          /\ run[p].args[2] = run[q].args[2] )
        => events[run[p].args[2]].avg_rating = ClaimMeanRating(run[p].args[2])

\* C22: the store never holds two reviews of one user for one event.
OneReviewPerUserAndEvent ==
    \A r1 \in reviews, r2 \in reviews :
        (r1.user_id = r2.user_id /\ r1.event_id = r2.event_id) => r1 = r2

\* a request of the event handlers that completes in this step
Completes(p) == run'[p] # run[p] /\ run'[p].pc = "done"

\* the requester is the organizer of the event or has the is_admin flag
ClaimMayModify(u, row) == row.organizer_id = u \/ users[u].is_admin

\* a guarded event handler answers 403 exactly to the others
GuardStep ==
    \A p \in Procs :
        ( /\ Completes(p)
          /\ run'[p].path = "ctl_event"
          /\ run'[p].args[1] \in {"update", "delete", "status"}
          /\ run'[p].args[2] \in DOMAIN run'[p].saved
          /\ run'[p].status # "badrequest" )
        => LET allowed == ClaimMayModify(run'[p].user,
                                         run'[p].saved[run'[p].args[2]])
           IN /\ allowed => run'[p].status \in {"ok", "error"}
              /\ ~allowed => (run'[p].status = "forbidden" /\ events' = events)

\* C23: updateEvent, deleteEvent and updateEventStatus go ahead exactly when
\* the requester is the event's organizer or an administrator; anyone else
\* gets 403 and the event and its categories are unchanged.
OrganizerOrAdminMayModify == [][GuardStep]_vars

\* the events table after the whole write of a completed request
ClaimWritten(r) ==
    LET id == r.args[2]
        body == r.args[3]
    IN IF r.args[1] = "create"
       THEN SetKey(r.saved, r.found,
                   EventRow(r.user, body.title.v, body.description.v,
                            "upcoming", body.categoryIds.v))
       ELSE [r.saved EXCEPT
                ![id] = [(IF r.path = "ctl_event"
                          THEN CtlEventFields(@, body)
                          ELSE MdlEventFields(@, body))
                         EXCEPT !.cats = IF body.categoryIds.given
                                            /\ (r.path = "ctl_event"
                                                \/ body.categoryIds.v # <<>>)
                                         THEN body.categoryIds.v ELSE @]]

\* a completed event write stored everything or nothing, a failed one nothing
AtomicStep ==
    \A p \in Procs :
        ( /\ Completes(p)
          /\ run'[p].path \in {"ctl_event", "mdl_event"}
          /\ run'[p].args[1] \in {"create", "update"}
          /\ run'[p].status \in {"ok", "error"} )
        => /\ connections' = 0
           /\ \/ events' = run'[p].saved
              \/ run'[p].status = "ok" /\ events' = ClaimWritten(run'[p])

\* C24: an event write stores the event row and its category links together
\* or leaves the event and its links as they were; a failing statement ends
\* in a rollback and a 500, and no connection stays checked out.
EventWritesAreAtomic == [][AtomicStep]_vars

\* a completed Event.update with a non-empty categories list
UpdateChangesWhatIsGivenStep ==
    \A p \in Procs :
        ( /\ Completes(p)
          /\ run'[p].path = "mdl_event"
          /\ run'[p].status = "ok"
          /\ run'[p].args[3].categoryIds.given
          /\ run'[p].args[3].categoryIds.v # <<>> )
        => LET id == run'[p].args[2]
               body == run'[p].args[3]
               before == run'[p].saved
           IN /\ events'[id].cats = body.categoryIds.v
              /\ ~body.title.given => events'[id].title = before[id].title
              /\ ~body.description.given =>
                     events'[id].description = before[id].description
              /\ ~body.status.given => events'[id].status = before[id].status

\* C25: after Event.update with a non-empty categories list the event's
\* category links are exactly that list, whatever other fields are given,
\* and the fields that are not given keep their values.
UpdateChangesWhatIsGiven == [][UpdateChangesWhatIsGivenStep]_vars

\* a resetPassword request that completes in this step
ResetCompletes(p) == Completes(p) /\ run'[p].path = "auth" /\ run'[p].args[1] = "reset"

\* a token that already reset a password is refused and changes nothing
SingleUseStep ==
    \A p \in Procs :
        (ResetCompletes(p) /\ run'[p].args[2] \in spentTokens)
        => (run'[p].status = 400 /\ users' = users)

\* a reset succeeds only with the token of the user's latest forgotPassword
SupersededStep ==
    \A p \in Procs :
        (ResetCompletes(p) /\ run'[p].status = 200)
        => LET mine == SelectSeq(issuedTokens,
                                 LAMBDA t : t.id = run'[p].args[2].id)
           IN \A i \in 1..(Len(mine) - 1) : mine[i] # run'[p].args[2]

\* C26: a reset token works once, and a later forgotPassword for the same
\* user makes the token of the earlier one useless.
ResetTokenIsSingleUse == [][SingleUseStep /\ SupersededStep]_vars

\* C27: the status and the body forgotPassword answers with are the same for
\* a registered and for an unregistered email.
ForgotPasswordHidesRegistration ==
    \A p \in Procs, q \in Procs :
        ( /\ run[p].pc = "done" /\ run[p].path = "auth"
          /\ run[p].args[1] = "forgot"
          /\ run[q].pc = "done" /\ run[q].path = "auth"
          /\ run[q].args[1] = "forgot"
          /\ (\E u \in DOMAIN users : users[u].email = run[p].args[2])
          /\ ~(\E u \in DOMAIN users : users[u].email = run[q].args[2]) )
        => (run[p].status = run[q].status /\ run[p].data = run[q].data)

\* the request values a piece's placeholders stand for, in order
ClaimSources(piece) ==
    IF piece \in {CategoryCondition, " WHERE ec.category_id = ?"}
    THEN <<"category">>
    ELSE IF piece \in {StatusCondition, " AND e.status = ?"} THEN <<"status">>
    ELSE IF piece = OrganizerCondition THEN <<"organizer">>
    ELSE IF piece = SearchCondition THEN <<"search", "search", "search">>
    ELSE IF piece = LimitOffset THEN <<"limit", "offset">>
    ELSE <<>>

ClaimPlaceholders(q) ==
    LET n[i \in 0..Len(q)] == IF i = 0 THEN 0 ELSE n[i - 1] + Marks(q[i])
    IN n[Len(q)]

ClaimSourcesOf(q) == Flatten([i \in 1..Len(q) |-> ClaimSources(q[i])])

ClaimFilters(q) == SelectSeq(q, LAMBDA piece : Marks(piece) > 0
                                               /\ piece # LimitOffset)

\* C28: in both listing builders the placeholders of the list query match
\* the bound parameters in number and order, the count query has the list
\* query's filters and parameters without LIMIT/OFFSET, and the ORDER BY
\* field and direction come from the whitelist.
ListingQueriesAreWellFormed ==
    call.fn \in {"getAllEvents", "getCategoryEvents"} =>
        /\ ClaimPlaceholders(call.query) = Len(call.params)
        /\ ClaimSourcesOf(call.query)
               = [i \in 1..Len(call.params) |-> call.params[i].src]
        /\ ClaimFilters(call.countQuery) = ClaimFilters(call.query)
        /\ ClaimPlaceholders(call.countQuery) = Len(call.countParams)
        /\ call.countParams = SubSeq(call.params, 1, Len(call.params) - 2)
        /\ call.fn = "getAllEvents" =>
               (call.orderField \in validSortFields
                /\ call.orderDir \in validSortDirs)
        /\ call.fn = "getCategoryEvents" =>
               (call.orderField = "date"
                /\ ToLowerCase(call.orderDir) = <<"d", "e", "s", "c">>)

\* the elements page k holds when the array is cut into runs of limit
ClaimPage(array, k, limit) ==
    SubSeq(array, (k - 1) * limit + 1, Min2(k * limit, Len(array)))

\* C29: the pages 1..totalPages of paginate put end to end are the array,
\* totalPages is ceil(length / limit), next is present exactly when a later
\* page has elements, previous exactly when page > 1.
PaginatePartitions ==
    call.fn = "paginate" =>
        LET n == Len(call.array)
            r == call.result
        IN /\ Flatten([k \in 1..r.totalPages |-> call.pages[k].results])
                  = call.array
           /\ r.totalPages * call.limit >= n
           /\ (r.totalPages - 1) * call.limit < n \/ (n = 0 /\ r.totalPages = 0)
           /\ r.results = ClaimPage(call.array, call.page, call.limit)
           /\ r.next.given <=>
                  \E k \in (call.page + 1)..(call.page + n + 1) :
                      ClaimPage(call.array, k, call.limit) # <<>>
           /\ r.previous.given <=> call.page > 1

PaginateMiddlePage ==
    /\ call.fn = "paginate"
    /\ call.result.totalPages >= 3
    /\ call.page = 2
    /\ call.result.next.given
    /\ call.result.previous.given
    /\ Len(call.pages[call.result.totalPages].results) < call.limit

\* the token was signed with the secret and has not expired at time t
ClaimVerifies(token, t) == token.purpose # "garbage" /\ t < token.exp

\* C30: the middleware calls next() only for a Bearer token that verifies
\* and names a user that still exists, and then req.user is that user's row;
\* a request with no Bearer header or a token that does not verify is
\* answered 401, and one naming a deleted user 401, or 500 when the query
\* itself fails.
AuthenticateGuardsHandler ==
    \A p \in Procs :
        (run[p].pc = "done" /\ run[p].path = "authenticate") =>
            LET header == run[p].args[2]
                at == run[p].args[3]
            IN /\ run[p].status \in {"next", "401", "500"}
               /\ run[p].status = "next" =>
                      /\ header # NoHeader
                      /\ header[1] = "Bearer"
                      /\ ClaimVerifies(header[2], at)
                      /\ header[2].id \in DOMAIN users
                      /\ run[p].data.id = header[2].id
                      /\ run[p].data.is_admin = users[header[2].id].is_admin
               /\ ( \/ header = NoHeader
                    \/ header[1] # "Bearer"
                    \/ ~ClaimVerifies(header[2], at) )
                  => run[p].status = "401"
               /\ ( /\ header # NoHeader
                    /\ header[2].id \notin DOMAIN users )
                  => run[p].status \in {"401", "500"}

AuthenticatePassedAndRefused ==
    \E p \in Procs, q \in Procs :
        /\ run[p].pc = "done" /\ run[p].path = "authenticate"
        /\ run[p].status = "next"
        /\ run[q].pc = "done" /\ run[q].path = "authenticate"
        /\ run[q].status = "401"
        /\ run[q].args[2] = <<"Bearer", DeletedUserToken>>

====
